---- MODULE Spec2Model ----
(***************************************************************************)
(* Verification model of the urban-planning retrieval core:                *)
(*   - QueryRouter   (src/api/query_router.js)                             *)
(*   - QueryEngine   (src/vector-db/query_engine.js)                       *)
(*   - LegalChunker  (src/processors/chunker.js)                           *)
(*                                                                         *)
(* Text is modelled as a sequence of lexical atoms (router) or of          *)
(* characters (chunker).  An atom is a maximal run of JavaScript word      *)
(* characters [A-Za-z0-9_] or one single non-word character; the letter    *)
(* a-grave, which JavaScript's \w does not contain, is the atom "[a-grave]".     *)
(* Scores of the router are fixed-point ten-thousandths.                   *)
(***************************************************************************)
EXTENDS Integers, Sequences, FiniteSets, TLC

VARIABLES
    \* ---- QueryRouter
    rpc,             \* "idle" | "classified"
    routerConfig,    \* this.config thresholds of the QueryRouter
    rquery,          \* the query text handed to classifyQuery (atoms)
    scoresIn,        \* the score triple handed to determineStrategy
    classification,  \* the classification returned
    requests,        \* the queryVectors requests issued for the classification
    \* ---- QueryEngine
    epc,             \* "idle" | "embedding" | "connecting" | "searching" | "returned"
    engineConfig,    \* this.config of the QueryEngine
    isConnected,     \* pineconeClient.isConnected
    options,         \* the options of the query() call
    targetNamespaces,\* the namespaces selectNamespaces chose
    calls,           \* per target namespace: status and matches of its queryVectors call
    allMatches,      \* the matches gathered from the namespaces, before sorting
    response,        \* the value query() returned
    now,             \* the clock, in milliseconds
    searchStart,     \* the time at which the namespace calls were issued
    \* ---- LegalChunker
    cpc,             \* "idle" | "done" | "threw"
    chunkerConfig,   \* this.config of the LegalChunker
    inputDocument,   \* the document handed to chunkDocument
    rawChunks,       \* the chunks before postProcessChunks
    processedChunks, \* the chunks chunkDocument returned
    \* ---- QueryEngine.rerankResults called on its own
    kpc,             \* "idle" | "done"
    rerankInput,     \* the results array handed to rerankResults
    rerankOutput,    \* the array rerankResults returned
    \* ---- ResponseGenerator and the emergency reply
    gpc,             \* "idle" | "done" | "fallback"
    generatorConfig, \* this.config of the ResponseGenerator
    generatorInput,  \* the matches and classification handed to generateResponse
    generated,       \* the response generateResponse returned
    fallbackError,   \* the message of the error handed to getFallbackResponse
    fallbackReply,   \* the text getFallbackResponse returned
    \* ---- RateLimiter
    lpc,             \* per call of waitIfNeeded: "idle" | "sleeping" | "returned"
    lastRequestTime, \* this.lastRequestTime
    wakeAt,          \* per call: the time its setTimeout is due
    calledAt,        \* per call: the time it was made
    returnedAt,      \* per call: the time its promise resolved
    clock,           \* Date.now(), in milliseconds from the limiter's construction
    \* ---- LegalMetadataExtractor
    xpc,             \* per call of extractMetadata: "idle" | "done"
    metadataDocument,\* the parsed document handed to both calls
    extracted,       \* per call: the metadata it returned
    xclock,          \* the clock new Date() reads, in milliseconds
    \* ---- LegalChunker.splitTextBySeparators, one loop iteration per step
    spc,             \* "idle" | "looping" | "returned"
    splitInput,      \* the text argument
    segments,        \* the segments pushed so far
    remainingText    \* the text the loop still has to split

routerVars == <<rpc, routerConfig, rquery, scoresIn, classification, requests>>

engineVars == <<epc, engineConfig, isConnected, options, targetNamespaces, calls,
                allMatches, response, now, searchStart>>

chunkerVars == <<cpc, chunkerConfig, inputDocument, rawChunks, processedChunks>>

rerankVars == <<kpc, rerankInput, rerankOutput>>

generatorVars == <<gpc, generatorConfig, generatorInput, generated, fallbackError, fallbackReply>>

limiterVars == <<lpc, lastRequestTime, wakeAt, calledAt, returnedAt, clock>>

extractorVars == <<xpc, metadataDocument, extracted, xclock>>

splitterVars == <<spc, splitInput, segments, remainingText>>

vars == <<routerVars, engineVars, chunkerVars, rerankVars, generatorVars, limiterVars,
          extractorVars, splitterVars>>

\* The variables an operation of one component leaves alone
notRouter == <<engineVars, chunkerVars, rerankVars, generatorVars, limiterVars, extractorVars, splitterVars>>

notEngine == <<routerVars, chunkerVars, rerankVars, generatorVars, limiterVars, extractorVars, splitterVars>>

notChunker == <<routerVars, engineVars, rerankVars, generatorVars, limiterVars, extractorVars, splitterVars>>

notRerank == <<routerVars, engineVars, chunkerVars, generatorVars, limiterVars, extractorVars, splitterVars>>

notGenerator == <<routerVars, engineVars, chunkerVars, rerankVars, limiterVars, extractorVars, splitterVars>>

notLimiter == <<routerVars, engineVars, chunkerVars, rerankVars, generatorVars, extractorVars, splitterVars>>

notExtractor == <<routerVars, engineVars, chunkerVars, rerankVars, generatorVars, limiterVars, splitterVars>>

notSplitter == <<routerVars, engineVars, chunkerVars, rerankVars, generatorVars, limiterVars,
                 extractorVars>>

--------------------------------------------------------------------------
(* Generic helpers                                                         *)

Max2(a, b) == IF a >= b THEN a ELSE b

Min2(a, b) == IF a <= b THEN a ELSE b

RECURSIVE SumFn(_, _)
SumFn(f, S) ==
    IF S = {} THEN 0
    ELSE LET x == CHOOSE y \in S : TRUE IN f[x] + SumFn(f, S \ {x})

\* All sequences over S of length 0..n
SeqsUpTo(S, n) == UNION { [1..k -> S] : k \in 0..n }

RECURSIVE Flatten(_)
Flatten(ss) == IF ss = <<>> THEN <<>> ELSE Head(ss) \o Flatten(Tail(ss))

--------------------------------------------------------------------------
(* QueryRouter                                                             *)

\* One unit of score is 1/ScoreScale
ScoreScale == 10000

\* keywordWeights, in tenths
keywordWeights == [legal |-> 10, regional |-> 8, urban |-> 9]

legalConfidenceThreshold == 1000

regionalConfidenceThreshold == 3000

legalKeywords ==
  <<
    <<"legge">>, <<"norma">>, <<"normativa">>, <<"decreto">>, <<"regolamento">>,
    <<"sentenza">>, <<"giurisprudenza">>, <<"articolo">>, <<"comma">>, <<"lettera">>,
    <<"abusivo">>, <<"sanzione">>, <<"multa">>, <<"permesso">>, <<"autorizzazione">>,
    <<"licenza">>, <<"concessione">>, <<"nullaosta">>, <<"parere">>, <<"visto">>,
    <<"nulla", "-", "osta">>, <<"requisiti">>, <<"adempimenti">>, <<"conformit", "[a-grave]">>,
    <<"cassazione">>, <<"tar">>, <<"consiglio", " ", "stato">>, <<"tribunale">>,
    <<"corte">>, <<"prefettura">>, <<"ministero">>, <<"soprintendenza">>, <<"regione">>,
    <<"dpr">>, <<"dlgs">>, <<"d", ".", "lgs">>, <<"d", ".", "p", ".", "r">>,
    <<"legge", " ", "quadro">>, <<"testo", " ", "unico">>, <<"codice", " ", "civile">>,
    <<"codice", " ", "penale">>, <<"costituzione">>, <<"ricorso">>, <<"appello">>,
    <<"istanza">>, <<"domanda">>, <<"richiesta">>, <<"procedimento">>, <<"processo">>,
    <<"giudizio">>, <<"accertamento">>
  >>

regionalKeywords ==
  <<
    <<"lombardia">>, <<"lazio">>, <<"veneto">>, <<"piemonte">>, <<"campania">>,
    <<"sicilia">>, <<"emilia", " ", "romagna">>, <<"emilia", "-", "romagna">>,
    <<"toscana">>, <<"puglia">>, <<"calabria">>, <<"sardegna">>, <<"liguria">>,
    <<"marche">>, <<"abruzzo">>, <<"umbria">>, <<"basilicata">>, <<"molise">>,
    <<"friuli">>, <<"trentino">>, <<"valle", " ", "aosta">>,
    <<"valle", " ", "d", "'", "aosta">>, <<"regione">>, <<"regionale">>, <<"provinciale">>,
    <<"comunale">>, <<"bur">>, <<"bollettino", " ", "ufficiale">>,
    <<"piano", " ", "territoriale", " ", "regionale">>, <<"ptr">>, <<"ptcp">>,
    <<"piano", " ", "territoriale", " ", "coordinamento">>,
    <<"piano", " ", "paesaggistico">>, <<"piano", " ", "casa">>,
    <<"legge", " ", "regionale">>, <<"lr">>, <<"l", ".", "r", ".">>,
    <<"delibera", " ", "regionale">>, <<"dgr">>, <<"giunta", " ", "regionale">>,
    <<"consiglio", " ", "regionale">>, <<"assessorato">>,
    <<"direzione", " ", "regionale">>, <<"settore", " ", "regionale">>
  >>

urbanKeywords ==
  <<
    <<"urbanistica">>, <<"urbanistico">>, <<"piano", " ", "regolatore">>, <<"prg">>,
    <<"piano", " ", "generale">>, <<"pgtu">>, <<"pgt">>, <<"piano", " ", "strutturale">>,
    <<"piano", " ", "operativo">>, <<"regolamento", " ", "edilizio">>, <<"re">>,
    <<"zoning">>, <<"zonizzazione">>, <<"destinazione", " ", "uso">>,
    <<"destinazione", " ", "d", "'", "uso">>, <<"zona", " ", "residenziale">>,
    <<"zona", " ", "commerciale">>, <<"zona", " ", "industriale">>,
    <<"zona", " ", "agricola">>, <<"zona", " ", "mista">>, <<"zona", " ", "servizi">>,
    <<"area", " ", "edificabile">>, <<"area", " ", "non", " ", "edificabile">>,
    <<"volumetria">>, <<"volume">>, <<"altezza">>, <<"altezza", " ", "massima">>,
    <<"distanze">>, <<"distanza", " ", "minima">>, <<"arretramento">>,
    <<"indice", " ", "edificabilit", "[a-grave]">>, <<"indice", " ", "fondiario">>,
    <<"indice", " ", "territoriale">>, <<"rapporto", " ", "copertura">>,
    <<"superficie", " ", "coperta">>, <<"standard", " ", "urbanistici">>,
    <<"standard", " ", "minimi">>, <<"parcheggi">>, <<"verde", " ", "pubblico">>,
    <<"verde", " ", "privato">>, <<"spazi", " ", "pubblici">>,
    <<"servizi", " ", "pubblici">>, <<"attrezzature", " ", "pubbliche">>,
    <<"opere", " ", "urbanizzazione">>, <<"urbanizzazione", " ", "primaria">>,
    <<"urbanizzazione", " ", "secondaria">>, <<"edificabilit", "[a-grave]">>, <<"edificabile">>,
    <<"permesso", " ", "costruire">>, <<"scia">>, <<"dia">>, <<"cila">>,
    <<"comunicazione", " ", "inizio", " ", "lavori">>, <<"collaudo">>, <<"agibilit", "[a-grave]">>,
    <<"abitabilit", "[a-grave]">>, <<"certificato", " ", "destinazione">>,
    <<"vincolo", " ", "paesaggistico">>, <<"vincolo", " ", "idrogeologico">>,
    <<"vincolo", " ", "archeologico">>, <<"vincolo", " ", "monumentale">>,
    <<"area", " ", "protetta">>, <<"parco">>, <<"riserva", " ", "naturale">>
  >>

\* Atoms that are not word characters of a JavaScript regular expression
NonWordAtoms == {" ", "-", "'", ".", "?", ",", "[a-grave]"}

IsWordAtom(a) == a \notin NonWordAtoms

\* Atoms made of digits only (\d+)
DigitAtoms == {"1", "42"}

\* String.prototype.toLowerCase on one atom
toLowerCase(a) ==
    CASE a = "Quali"     -> "quali"
      [] a = "Normativa" -> "normativa"
      [] a = "Piano"     -> "piano"
      [] a = "Lombardia" -> "lombardia"
      [] a = "BUR"       -> "bur"
      [] a = "Legge"     -> "legge"
      [] a = "Art"       -> "art"
      [] a = "D"         -> "d"
      [] OTHER           -> a

IsPrefixAt(s, i, p) ==
    /\ i + Len(p) - 1 <= Len(s)
    /\ \A k \in 1..Len(p) : s[i + k - 1] = p[k]

\* String.prototype.replace(/\b<pat>/g, rep) for a pattern that starts with
\* a word atom: atoms are maximal, so every atom start is a \b position.
RECURSIVE ReplaceAll(_, _, _)
ReplaceAll(s, pat, rep) ==
    IF s = <<>> THEN <<>>
    ELSE IF IsPrefixAt(s, 1, pat)
         THEN rep \o ReplaceAll(SubSeq(s, Len(pat) + 1, Len(s)), pat, rep)
         ELSE <<Head(s)>> \o ReplaceAll(Tail(s), pat, rep)

\* Number of leading space atoms
RECURSIVE LeadingSpaces(_)
LeadingSpaces(s) ==
    IF s # <<>> /\ Head(s) = " " THEN 1 + LeadingSpaces(Tail(s)) ELSE 0

\* .replace(/\bcomma\s+(\d+)/g, 'comma $1')
RECURSIVE ReplaceCommaNumber(_)
ReplaceCommaNumber(s) ==
    IF s = <<>> THEN <<>>
    ELSE LET n == LeadingSpaces(Tail(s)) IN
         IF /\ Head(s) = "comma"
            /\ n >= 1
            /\ Len(s) >= n + 2
            /\ s[n + 2] \in DigitAtoms
         THEN <<"comma", " ", s[n + 2]>>
                  \o ReplaceCommaNumber(SubSeq(s, n + 3, Len(s)))
         ELSE <<Head(s)>> \o ReplaceCommaNumber(Tail(s))

\* String.prototype.trim
RECURSIVE TrimLeft(_)
TrimLeft(s) == IF s # <<>> /\ Head(s) = " " THEN TrimLeft(Tail(s)) ELSE s

RECURSIVE TrimRight(_)
TrimRight(s) ==
    IF s # <<>> /\ s[Len(s)] = " " THEN TrimRight(SubSeq(s, 1, Len(s) - 1)) ELSE s

Trim(s) == TrimRight(TrimLeft(s))

\* .replace(/[^\w\s\-']/g, ' ')
RemovePunctuation(s) ==
    [i \in 1..Len(s) |->
        IF IsWordAtom(s[i]) \/ s[i] \in {" ", "-", "'"} THEN s[i] ELSE " "]

\* .replace(/\s+/g, ' ')
RECURSIVE CollapseWhitespace(_)
CollapseWhitespace(s) ==
    IF s = <<>> THEN <<>>
    ELSE IF Head(s) = " "
         THEN <<" ">> \o CollapseWhitespace(TrimLeft(s))
         ELSE <<Head(s)>> \o CollapseWhitespace(Tail(s))

normalizeQuery(query) ==
    LET s0 == [i \in 1..Len(query) |-> toLowerCase(query[i])]
        s1 == Trim(s0)
        s2 == ReplaceAll(s1, <<"d", ".", "lgs", ".">>, <<"dlgs">>)
        s3 == ReplaceAll(s2, <<"d", ".", "p", ".", "r", ".">>, <<"dpr">>)
        s4 == ReplaceAll(s3, <<"l", ".", "r", ".">>, <<"lr">>)
        s5 == ReplaceAll(s4, <<"art", ".">>, <<"articolo">>)
        s6 == ReplaceCommaNumber(s5)
        s7 == ReplaceAll(s6, <<"emilia", "-", "romagna">>, <<"emilia", " ", "romagna">>)
        s8 == ReplaceAll(s7, <<"valle", " ", "d", "'", "aosta">>, <<"valle", " ", "aosta">>)
        s9 == RemovePunctuation(s8)
    IN  CollapseWhitespace(s9)

\* One keyword's regex \b<keyword>\b matches the query at atom i (every
\* keyword starts with a word character)
KeywordMatchesAt(query, i, keyword) ==
    /\ IsPrefixAt(query, i, keyword)
    /\ (i = 1 \/ ~IsWordAtom(query[i - 1]))
    /\ LET last == keyword[Len(keyword)]
           j    == i + Len(keyword)
       IN  IF IsWordAtom(last)
           THEN j > Len(query) \/ ~IsWordAtom(query[j])
           ELSE j <= Len(query) /\ IsWordAtom(query[j])

\* (query.match(regex) || []).length : non-overlapping matches, left to right
RECURSIVE KeywordMatchesFrom(_, _, _)
KeywordMatchesFrom(query, i, keyword) ==
    IF i > Len(query) THEN 0
    ELSE IF KeywordMatchesAt(query, i, keyword)
         THEN 1 + KeywordMatchesFrom(query, i + Len(keyword), keyword)
         ELSE KeywordMatchesFrom(query, i + 1, keyword)

RECURSIVE countMatchesFrom(_, _, _)
countMatchesFrom(query, keywords, k) ==
    IF k > Len(keywords) THEN 0
    ELSE KeywordMatchesFrom(query, 1, keywords[k])
             + countMatchesFrom(query, keywords, k + 1)

countMatches(query, keywords) == countMatchesFrom(query, keywords, 1)

\* floor(1000 * Math.min(matches / Math.sqrt(totalKeywords), 1.0))
BaseScoreMilli(matches, totalKeywords) ==
    IF matches * matches >= totalKeywords THEN 1000
    ELSE CHOOSE r \in 0..1000 :
            /\ r * r * totalKeywords <= matches * matches * 1000000
            /\ (r + 1) * (r + 1) * totalKeywords > matches * matches * 1000000

calculateScore(matches, totalKeywords, weight) ==
    IF totalKeywords = 0 THEN 0
    ELSE BaseScoreMilli(matches, totalKeywords) * weight

regionMap ==
    << <<<<"lombardia">>, "LOM">>, <<<<"lazio">>, "LAZ">>, <<<<"veneto">>, "VEN">>,
       <<<<"piemonte">>, "PIE">>, <<<<"campania">>, "CAM">>, <<<<"sicilia">>, "SIC">>,
       <<<<"emilia", " ", "romagna">>, "EMR">>, <<<<"toscana">>, "TOS">>,
       <<<<"puglia">>, "PUG">>, <<<<"calabria">>, "CAL">>, <<<<"sardegna">>, "SAR">>,
       <<<<"liguria">>, "LIG">>, <<<<"marche">>, "MAR">>, <<<<"abruzzo">>, "ABR">>,
       <<<<"umbria">>, "UMB">>, <<<<"basilicata">>, "BAS">>, <<<<"molise">>, "MOL">>,
       <<<<"friuli">>, "FRI">>, <<<<"trentino">>, "TRE">>,
       <<<<"valle", " ", "aosta">>, "VDA">> >>

\* query.includes(region), on whole atoms
Includes(query, region) == \E i \in 1..Len(query) : IsPrefixAt(query, i, region)

NoRegion == "null"

extractRegion(query) ==
    LET hits == { k \in 1..Len(regionMap) : Includes(query, regionMap[k][1]) }
    IN  IF hits = {} THEN NoRegion
        ELSE regionMap[CHOOSE k \in hits : \A j \in hits : k <= j][2]

NoFilters == [region |-> NoRegion]

\* The result object of a strategy, for the variants of determineStrategy below
StrategyResult(strategy, namespaces, scores, normalizedQuery) ==
    [strategy |-> strategy,
     namespaces |-> namespaces,
     weights |-> [n \in {""} |-> 1000],
     filters |-> IF strategy \in {"comprehensive", "regional-focus"}
                 THEN [region |-> extractRegion(normalizedQuery)]
                 ELSE NoFilters,
     needsLegalDisclaimer |-> strategy # "urban-only",
     confidence |->
         CASE strategy = "comprehensive" ->
                  Max2(Max2(scores.legal, scores.regional), scores.urban)
           [] strategy = "legal-urban" -> Max2(scores.legal, scores.urban)
           [] strategy = "regional-focus" -> scores.regional
           [] strategy = "legal-only" -> scores.legal
           [] strategy = "urban-legal-light" -> scores.urban
           [] OTHER -> Max2(scores.urban, 5000)]

\* determineStrategy with the regional strategy sent to a second namespace
\* that is given no weight
determineStrategyUnweightedNamespace(scores, normalizedQuery, cfg) ==
    LET legalOk    == scores.legal >= cfg.legalConfidenceThreshold
        regionalOk == scores.regional >= cfg.regionalConfidenceThreshold
        strategy ==
            IF legalOk /\ regionalOk /\ scores.urban > 2000 THEN "comprehensive"
            ELSE IF legalOk /\ scores.urban > 2000 THEN "legal-urban"
            ELSE IF regionalOk THEN "regional-focus"
            ELSE IF legalOk THEN "legal-only"
            ELSE IF scores.urban > 4000 /\ scores.legal > 1000 THEN "urban-legal-light"
            ELSE "urban-only"
    IN  StrategyResult(strategy,
                       IF strategy = "regional-focus" THEN <<"", "laws-regional">>
                       ELSE <<"">>,
                       scores, normalizedQuery)

\* determineStrategy with the pure legal rule tried before the regional one
determineStrategyLegalBeforeRegional(scores, normalizedQuery, cfg) ==
    LET legalOk    == scores.legal >= cfg.legalConfidenceThreshold
        regionalOk == scores.regional >= cfg.regionalConfidenceThreshold
        strategy ==
            IF legalOk /\ regionalOk /\ scores.urban > 2000 THEN "comprehensive"
            ELSE IF legalOk /\ scores.urban > 2000 THEN "legal-urban"
            ELSE IF legalOk THEN "legal-only"
            ELSE IF regionalOk THEN "regional-focus"
            ELSE IF scores.urban > 4000 /\ scores.legal > 1000 THEN "urban-legal-light"
            ELSE "urban-only"
    IN  StrategyResult(strategy, <<"">>, scores, normalizedQuery)

\* determineStrategy with the light legal rule tried first
determineStrategyLightFirst(scores, normalizedQuery, cfg) ==
    LET legalOk    == scores.legal >= cfg.legalConfidenceThreshold
        regionalOk == scores.regional >= cfg.regionalConfidenceThreshold
        strategy ==
            IF scores.urban > 4000 /\ scores.legal > 1000 THEN "urban-legal-light"
            ELSE IF legalOk /\ regionalOk /\ scores.urban > 2000 THEN "comprehensive"
            ELSE IF legalOk /\ scores.urban > 2000 THEN "legal-urban"
            ELSE IF regionalOk THEN "regional-focus"
            ELSE IF legalOk THEN "legal-only"
            ELSE "urban-only"
    IN  StrategyResult(strategy, <<"">>, scores, normalizedQuery)

determineStrategy(scores, normalizedQuery, cfg) ==
    LET legal    == scores.legal
        regional == scores.regional
        urban    == scores.urban
        extractedRegion == extractRegion(normalizedQuery)
    IN
    IF /\ legal >= cfg.legalConfidenceThreshold
       /\ regional >= cfg.regionalConfidenceThreshold
       /\ urban > 2000
    THEN [strategy |-> "comprehensive",
          namespaces |-> <<"">>,
          weights |-> [n \in {""} |-> 1000],
          filters |-> [region |-> extractedRegion],
          needsLegalDisclaimer |-> TRUE,
          confidence |-> Max2(Max2(legal, regional), urban)]
    ELSE IF legal >= cfg.legalConfidenceThreshold /\ urban > 2000
    THEN [strategy |-> "legal-urban",
          namespaces |-> <<"">>,
          weights |-> [n \in {""} |-> 1000],
          filters |-> NoFilters,
          needsLegalDisclaimer |-> TRUE,
          confidence |-> Max2(legal, urban)]
    ELSE IF regional >= cfg.regionalConfidenceThreshold
    THEN [strategy |-> "regional-focus",
          namespaces |-> <<"">>,
          weights |-> [n \in {""} |-> 1000],
          filters |-> [region |-> extractedRegion],
          needsLegalDisclaimer |-> TRUE,
          confidence |-> regional]
    ELSE IF legal >= cfg.legalConfidenceThreshold
    THEN [strategy |-> "legal-only",
          namespaces |-> <<"">>,
          weights |-> [n \in {""} |-> 1000],
          filters |-> NoFilters,
          needsLegalDisclaimer |-> TRUE,
          confidence |-> legal]
    ELSE IF urban > 4000 /\ legal > 1000
    THEN [strategy |-> "urban-legal-light",
          namespaces |-> <<"">>,
          weights |-> [n \in {""} |-> 1000],
          filters |-> NoFilters,
          needsLegalDisclaimer |-> TRUE,
          confidence |-> urban]
    ELSE [strategy |-> "urban-only",
          namespaces |-> <<"">>,
          weights |-> [n \in {""} |-> 1000],
          filters |-> NoFilters,
          needsLegalDisclaimer |-> FALSE,
          confidence |-> Max2(urban, 5000)]

QueryScores(normalizedQuery) ==
    [legal    |-> calculateScore(countMatches(normalizedQuery, legalKeywords),
                                 Len(legalKeywords), keywordWeights.legal),
     regional |-> calculateScore(countMatches(normalizedQuery, regionalKeywords),
                                 Len(regionalKeywords), keywordWeights.regional),
     urban    |-> calculateScore(countMatches(normalizedQuery, urbanKeywords),
                                 Len(urbanKeywords), keywordWeights.urban)]

classifyQuery(query, cfg) ==
    LET normalizedQuery == normalizeQuery(query)
    IN  determineStrategy(QueryScores(normalizedQuery), normalizedQuery, cfg)

--------------------------------------------------------------------------
(* QueryRouter: inputs and operations                                      *)

TestQuery1 ==
    <<"Quali", " ", "sono", " ", "i", " ", "requisiti", " ", "legali", " ", "per",
      " ", "un", " ", "cambio", " ", "di", " ", "destinazione", " ", "d", "'", "uso",
      " ", "residenziale", "?">>

TestQuery2 ==
    <<"Quali", " ", "sono", " ", "le", " ", "distanze", " ", "minime", " ", "tra",
      " ", "edifici", " ", "residenziali", " ", "secondo", " ", "standard", " ",
      "urbanistici", "?">>

TestQuery3 ==
    <<"Normativa", " ", "esproprio", " ", "per", " ", "pubblica", " ", "utilit",
      "[a-grave]", " ", "secondo", " ", "legge", " ", "italiana", " ", "e", " ",
      "giurisprudenza">>

TestQuery4 ==
    <<"Piano", " ", "regolatore", " ", "generale", " ", "in", " ", "Lombardia", " ",
      "-", " ", "normativa", " ", "regionale", " ", "BUR">>

TEST_QUERIES == {TestQuery1, TestQuery2, TestQuery3, TestQuery4}

\* Longest generated query, in phrases
MaxQueryWords == 3

\* Phrases the generated queries are made of
QueryPhrases ==
    { <<"Legge">>, <<"requisiti">>, <<"Lombardia">>, <<"regionale">>,
      <<"urbanistica">>, <<"D", ".", "lgs", ".">> }

RECURSIVE JoinPhrases(_)
JoinPhrases(ps) ==
    IF ps = <<>> THEN <<>>
    ELSE IF Len(ps) = 1 THEN Head(ps)
    ELSE Head(ps) \o <<" ">> \o JoinPhrases(Tail(ps))

Queries ==
    TEST_QUERIES \cup { JoinPhrases(ps) : ps \in SeqsUpTo(QueryPhrases, MaxQueryWords) }

\* Score values around every comparison of determineStrategy
ScoreGrid == {0, 999, 1000, 1001, 2000, 2001, 2999, 3000, 4000, 4001, 5001, 10000}

DefaultRouterConfig ==
    [legalConfidenceThreshold    |-> legalConfidenceThreshold,
     regionalConfidenceThreshold |-> regionalConfidenceThreshold]

\* The constructor's ...config override of the two thresholds
RouterConfigs ==
    [legalConfidenceThreshold    : {legalConfidenceThreshold, 3000},
     regionalConfidenceThreshold : {regionalConfidenceThreshold, 5000}]

NoScores == [legal |-> 0, regional |-> 0, urban |-> 0]

NoClassification ==
    [strategy |-> "none", namespaces |-> <<>>, weights |-> <<>>,
     filters |-> NoFilters, needsLegalDisclaimer |-> FALSE, confidence |-> 0]

RouterInit ==
    /\ rpc = "idle"
    /\ routerConfig \in RouterConfigs
    /\ rquery = <<>>
    /\ scoresIn = NoScores
    /\ classification = NoClassification
    /\ requests = <<>>

RouterIdle ==
    /\ rpc = "off"
    /\ routerConfig = DefaultRouterConfig
    /\ rquery = <<>>
    /\ scoresIn = NoScores
    /\ classification = NoClassification
    /\ requests = <<>>

\* router.classifyQuery(query)
ClassifyQuery ==
    /\ rpc = "idle"
    /\ \E query \in Queries :
          /\ rquery' = query
          /\ scoresIn' = QueryScores(normalizeQuery(query))
          /\ classification' = classifyQuery(query, routerConfig)
    /\ rpc' = "classified"
    /\ UNCHANGED <<routerConfig, requests>>
    /\ UNCHANGED notRouter

\* router.determineStrategy(scores, normalizedQuery)
DetermineStrategy ==
    /\ rpc = "idle"
    /\ \E scores \in [legal : ScoreGrid, regional : ScoreGrid, urban : ScoreGrid] :
          /\ scoresIn' = scores
          /\ classification' = determineStrategy(scores, <<>>, routerConfig)
    /\ rpc' = "strategy"
    /\ UNCHANGED <<routerConfig, rquery, requests>>
    /\ UNCHANGED notRouter

\* filter[namespace] || {} of queryMultipleNamespaces: the filters object of
\* the classification has the one key 'region', or no key at all
namespaceFilter(filters, namespace) ==
    IF namespace = "region" /\ filters.region # NoRegion THEN filters.region
    ELSE NoFilters

\* The options of one queryVectors call of queryMultipleNamespaces
queryRequests(namespaces, filters) ==
    [k \in 1..Len(namespaces) |->
        [namespace |-> namespaces[k],
         filter |-> namespaceFilter(filters, namespaces[k])]]

\* pineconeClient.queryMultipleNamespaces(vector, classification.namespaces,
\* {topK: 8, filter: classification.filters, ...}), the search step of
\* handleEnhancedQuery
QueryMultipleNamespaces ==
    /\ rpc = "classified"
    /\ requests' = queryRequests(classification.namespaces, classification.filters)
    /\ rpc' = "queried"
    /\ UNCHANGED <<routerConfig, rquery, scoresIn, classification>>
    /\ UNCHANGED notRouter

RouterNext ==
    \/ ClassifyQuery
    \/ DetermineStrategy
    \/ QueryMultipleNamespaces



--------------------------------------------------------------------------
(* QueryEngine: configuration and pure helpers                             *)
(* Similarity scores are fixed-point ten-thousandths, namespace weights    *)
(* hundredths, time milliseconds.                                          *)

defaultTopK == 10

maxTopK == 100

defaultThreshold == 5000

legalContextBoost == 1500

\* diversityBoost 0.1, as the divisor applied to the diversity map
diversityBoostDivisor == 10

queryTimeout == 30000

\* this.config.namespaces with the PINECONE_NAMESPACE_* variables unset
DefaultNamespaces ==
    [base |-> "__default__", laws |-> "__default__",
     jurisprudence |-> "__default__", regional |-> "__default__"]

\* this.config.namespaces with the PINECONE_NAMESPACE_* variables set
NamedNamespaces ==
    [base |-> "urbanistica-base", laws |-> "laws-national",
     jurisprudence |-> "jurisprudence", regional |-> "laws-regional"]

\* config.namespaceWeights as the constructor sets it
DefaultNamespaceWeights ==
    [n \in {"__default__", "urbanistica-base", "laws-national", "jurisprudence",
            "laws-regional"} |->
        CASE n = "__default__"      -> 100
          [] n = "urbanistica-base" -> 100
          [] n = "laws-national"    -> 90
          [] n = "jurisprudence"    -> 80
          [] n = "laws-regional"    -> 85]

\* this.config.namespaceWeights[namespace] || 1.0
namespaceWeights(namespace) ==
    IF namespace \in DOMAIN engineConfig.namespaceWeights
    THEN engineConfig.namespaceWeights[namespace]
    ELSE 100

\* options.namespaces left null; the calls of the model never pass an empty
\* array, so the empty sequence is free to stand for it
Null == <<>>

selectNamespaces(searchMode, explicitNamespaces, cfg) ==
    IF explicitNamespaces # Null THEN explicitNamespaces
    ELSE CASE searchMode = "legal_only" ->
                <<cfg.namespaces.laws, cfg.namespaces.jurisprudence,
                  cfg.namespaces.regional>>
           [] searchMode = "urban_only" -> <<cfg.namespaces.base>>
           [] OTHER ->
                <<cfg.namespaces.base, cfg.namespaces.laws,
                  cfg.namespaces.jurisprudence, cfg.namespaces.regional>>

\* Math.min(topK * 2, this.config.maxTopK)
adjustedTopK(topK) == Min2(topK * 2, maxTopK)

isLegalDocument(match) ==
    match.document_type \in {"legge", "decreto", "regolamento", "dpr", "dlgs", "sentenza"}

\* The comparators handed to Array.prototype.sort, by name: Before(c, a, b)
\* is "the comparator c returns a negative number for (a, b)"
Before(comparator, a, b) ==
    CASE comparator = "merge" ->
            \* scoreB - scoreA with score = a.score * (a.namespace_weight || 1.0)
            a.score * a.namespace_weight > b.score * b.namespace_weight
      [] comparator = "rerank" ->
            IF (IF b.score >= a.score THEN b.score - a.score ELSE a.score - b.score) > 1000
            THEN b.score - a.score < 0
            ELSE IF isLegalDocument(a) /\ ~isLegalDocument(b) THEN TRUE
            ELSE IF ~isLegalDocument(a) /\ isLegalDocument(b) THEN FALSE
            ELSE b.quality_score - a.quality_score < 0
      [] comparator = "raw" -> a.score > b.score
      [] comparator = "relevance" ->
            \* b.score - a.score, which is NaN when either score is missing
            a.scoreIsNumber /\ b.scoreIsNumber /\ b.score - a.score < 0

\* Stable insertion of x into a sorted sequence (Array.prototype.sort is
\* stable: x goes after every element it is not strictly before)
RECURSIVE InsertSorted(_, _, _)
InsertSorted(s, x, comparator) ==
    IF s = <<>> THEN <<x>>
    ELSE IF Before(comparator, x, s[Len(s)])
         THEN InsertSorted(SubSeq(s, 1, Len(s) - 1), x, comparator) \o <<s[Len(s)]>>
         ELSE s \o <<x>>

RECURSIVE StableSort(_, _)
StableSort(s, comparator) ==
    IF s = <<>> THEN <<>>
    ELSE InsertSorted(StableSort(SubSeq(s, 1, Len(s) - 1), comparator), s[Len(s)], comparator)

Take(s, n) == SubSeq(s, 1, Min2(n, Len(s)))

\* Array.prototype.sort as Node's engine runs it on an array shorter than 64
\* elements: the leading run is found (and reversed when it descends), then
\* the remaining elements are placed by binary insertion.  The comparator of
\* rerankResults is not transitive, so the result depends on these steps.
Reverse(s) == [k \in 1..Len(s) |-> s[Len(s) + 1 - k]]

RunDescends(s, comparator) == Before(comparator, s[2], s[1])

RunLength(s, comparator) ==
    CHOOSE r \in 2..Len(s) :
        /\ \A idx \in 3..r :
               Before(comparator, s[idx], s[idx - 1]) = RunDescends(s, comparator)
        /\ \/ r = Len(s)
           \/ Before(comparator, s[r + 1], s[r]) # RunDescends(s, comparator)

\* The index (counted from 0) at which the pivot goes into s[left+1..right]
RECURSIVE BinarySearch(_, _, _, _, _)
BinarySearch(s, pivot, left, right, comparator) ==
    IF left >= right THEN left
    ELSE LET mid == left + ((right - left) \div 2) IN
         IF Before(comparator, pivot, s[mid + 1])
         THEN BinarySearch(s, pivot, left, mid, comparator)
         ELSE BinarySearch(s, pivot, mid + 1, right, comparator)

RECURSIVE BinaryInsertionSort(_, _, _)
BinaryInsertionSort(s, start, comparator) ==
    IF start > Len(s) THEN s
    ELSE LET pivot == s[start]
             left  == BinarySearch(s, pivot, 0, start - 1, comparator)
             placed == SubSeq(s, 1, left) \o <<pivot>> \o SubSeq(s, left + 1, start - 1)
                       \o SubSeq(s, start + 1, Len(s))
         IN  BinaryInsertionSort(placed, start + 1, comparator)

ArraySort(s, comparator) ==
    IF Len(s) < 2 THEN s
    ELSE LET r == RunLength(s, comparator)
             run == IF RunDescends(s, comparator)
                    THEN Reverse(SubSeq(s, 1, r)) ELSE SubSeq(s, 1, r)
         IN  BinaryInsertionSort(run \o SubSeq(s, r + 1, Len(s)), r + 1, comparator)

\* searchPromise without the try/catch around queryVectors: a failing
\* namespace rejects its promise
searchPromiseUncaught(namespace, call) ==
    [namespace |-> namespace, matches |-> call.matches,
     error |-> FALSE, rejected |-> call.status # "ok"]

\* The object one namespace's search promise resolves to (the try/catch
\* around queryVectors); rejected is TRUE when the promise rejects instead
searchPromise(namespace, call) ==
    IF call.status = "ok"
    THEN [namespace |-> namespace, matches |-> call.matches,
          error |-> FALSE, rejected |-> FALSE]
    ELSE [namespace |-> namespace, matches |-> <<>>,
          error |-> TRUE, rejected |-> FALSE]

\* match => ({...match, source_namespace, namespace_weight})
TagMatches(matches, namespace, weight) ==
    [k \in 1..Len(matches) |->
        [id |-> matches[k].id, score |-> matches[k].score,
         document_type |-> matches[k].document_type,
         quality_score |-> matches[k].quality_score,
         source_namespace |-> namespace, namespace_weight |-> weight,
         legal_context_boost |-> 0]]

\* The allMatches array of mergeNamespaceResults before it is sorted
mergeInputOf(namespaceResults) ==
    Flatten([i \in 1..Len(namespaceResults) |->
        IF namespaceResults[i].error THEN <<>>
        ELSE TagMatches(namespaceResults[i].matches, namespaceResults[i].namespace,
                        namespaceWeights(namespaceResults[i].namespace))])

mergeNamespaceResults(namespaceResults, topK) ==
    Take(StableSort(mergeInputOf(namespaceResults), "merge"), topK)

\* diversityMap[docType] || 0, in ten-thousandths before diversityBoost
diversityMap(docType) ==
    CASE docType = "legge"       -> 500
      [] docType = "decreto"     -> 400
      [] docType = "regolamento" -> 300
      [] docType = "sentenza"    -> 600
      [] docType = "dpr"         -> 400
      [] docType = "dlgs"        -> 400
      [] OTHER                   -> 0

calculateDiversityBoost(match) == diversityMap(match.document_type) \div diversityBoostDivisor

enhanceMatch(match) ==
    LET boost == IF isLegalDocument(match) THEN legalContextBoost ELSE 0
    IN  [match EXCEPT !.score = match.score + boost + calculateDiversityBoost(match),
                      !.legal_context_boost = boost]

enhanceResults(results) == [k \in 1..Len(results) |-> enhanceMatch(results[k])]

\* applyThreshold with the comparison turned round
applyThresholdBelow(results, threshold) ==
    SelectSeq(results, LAMBDA match : match.score <= threshold)

applyThreshold(results, threshold) ==
    SelectSeq(results, LAMBDA match : match.score >= threshold)

rerankResults(results) == ArraySort(results, "rerank")

formatQueryResponse(results, totalResults) ==
    [results |-> [k \in 1..Len(results) |->
                    [rank |-> k,
                     id |-> results[k].id,
                     score |-> results[k].score,
                     namespace |-> results[k].source_namespace,
                     weight_applied |-> results[k].namespace_weight,
                     legal_boost |-> results[k].legal_context_boost]],
     error |-> FALSE,
     totalResults |-> totalResults]

\* The value returned by the catch block of query()
ErrorResponse == [results |-> <<>>, error |-> TRUE, totalResults |-> 0]

\* Steps 4-7 of query(), after executeMultiNamespaceSearch has returned
processResults(searchResults, opts) ==
    LET enhancedResults == enhanceResults(searchResults)
        filteredResults == applyThreshold(enhancedResults, opts.threshold)
        finalResults    == IF opts.enableReranking
                           THEN rerankResults(filteredResults)
                           ELSE filteredResults
    IN  formatQueryResponse(finalResults, Len(enhancedResults))

--------------------------------------------------------------------------
(* QueryEngine: one query() call and its namespace fan-out                 *)

\* Matches the vector store can return; each namespace answers with a subset,
\* best score first
MatchPool ==
    { [id |-> "m1", score |-> 9000, document_type |-> "legge", quality_score |-> 90],
      [id |-> "m2", score |-> 5200, document_type |-> "none", quality_score |-> 50],
      [id |-> "m3", score |-> 4000, document_type |-> "sentenza", quality_score |-> 85] }

\* Most matches one namespace returns in the model
MaxMatchesPerNs == 2

\* Milliseconds added by one Tick
TickMs == 20000

\* Number of ticks the clock is allowed
MaxTicks == 2

RECURSIVE SetToSeq(_)
SetToSeq(S) ==
    IF S = {} THEN <<>>
    ELSE LET x == CHOOSE y \in S : TRUE IN <<x>> \o SetToSeq(S \ {x})

\* The answers of the vector store to a query asking for topK matches
\* The two namespaces of the merge-ordering example: the first answers with
\* raw scores 0.9 and 0.7, the second with 0.85 and 0.6; the document type
\* and the quality of the two best matches are left open
ExampleMatch(id, score, documentType, quality) ==
    [id |-> id, score |-> score, document_type |-> documentType, quality_score |-> quality]

ExampleAnswers(namespace) ==
    IF namespace = "first"
    THEN { << ExampleMatch("x1", 9000, t, q), ExampleMatch("x2", 7000, "none", 50) >> :
               t \in {"none", "legge"}, q \in {50, 90} }
    ELSE { << ExampleMatch("y1", 8500, t, q), ExampleMatch("y2", 6000, "none", 50) >> :
               t \in {"none", "legge"}, q \in {50, 90} }

\* The answers of the vector store to a query of a namespace asking for topK
\* matches
StoreAnswers(namespace, topK) ==
    IF namespace \in {"first", "second"}
    THEN { Take(answer, topK) : answer \in ExampleAnswers(namespace) }
    ELSE { StableSort(SetToSeq(S), "raw") :
             S \in { T \in SUBSET MatchPool :
                        Cardinality(T) <= Min2(topK, MaxMatchesPerNs) } }

EngineConfigs ==
    [namespaces : {DefaultNamespaces, NamedNamespaces},
     enableParallelQueries : BOOLEAN,
     namespaceWeights : {DefaultNamespaceWeights}]

\* The configuration of the merge-ordering example: weights 1.0 and 0.5
ExampleConfigs ==
    [namespaces : {NamedNamespaces},
     enableParallelQueries : BOOLEAN,
     namespaceWeights : {[n \in {"first", "second"} |->
                            IF n = "first" THEN 100 ELSE 50]}]

\* The query of the merge-ordering example: both namespaces, all four
\* matches asked for
ExampleOptions ==
    [topK : {2},
     threshold : {defaultThreshold},
     namespaces : {<<"first", "second">>},
     searchMode : {"hybrid"},
     enableReranking : {TRUE}]

\* The options of the query() calls of the model; topK 1 stands for any
\* requested topK
QueryOptions ==
    [topK : {1},
     threshold : {defaultThreshold, 6000},
     namespaces : {Null, <<"laws-national">>},
     searchMode : {"hybrid", "legal_only", "urban_only"},
     enableReranking : BOOLEAN]

NoOptions ==
    [topK |-> defaultTopK, threshold |-> defaultThreshold, namespaces |-> Null,
     searchMode |-> "hybrid", enableReranking |-> TRUE]

NoResponse == [results |-> <<>>, error |-> FALSE, totalResults |-> 0]

NotStarted == [status |-> "notstarted", matches |-> <<>>]

Pending == [status |-> "pending", matches |-> <<>>]

EngineStart(configs) ==
    /\ epc = "idle"
    /\ engineConfig \in configs
    /\ isConnected \in BOOLEAN
    /\ options = NoOptions
    /\ targetNamespaces = <<>>
    /\ calls = <<>>
    /\ allMatches = <<>>
    /\ response = NoResponse
    /\ now = 0
    /\ searchStart = 0

EngineInit == EngineStart(EngineConfigs)

ExampleInit == EngineStart(ExampleConfigs)

EngineIdle ==
    /\ epc = "off"
    /\ engineConfig = [namespaces |-> DefaultNamespaces, enableParallelQueries |-> TRUE,
                       namespaceWeights |-> DefaultNamespaceWeights]
    /\ isConnected = FALSE
    /\ options = NoOptions
    /\ targetNamespaces = <<>>
    /\ calls = <<>>
    /\ allMatches = <<>>
    /\ response = NoResponse
    /\ now = 0
    /\ searchStart = 0

ParallelPath == engineConfig.enableParallelQueries /\ Len(targetNamespaces) > 1

Settled(call) == call.status \in {"ok", "failed"}

\* query(): selectNamespaces, then await generateQueryEmbedding
Query(optionSet) ==
    /\ epc = "idle"
    /\ \E opts \in optionSet :
          /\ options' = opts
          /\ targetNamespaces' =
                 selectNamespaces(opts.searchMode, opts.namespaces, engineConfig)
    /\ epc' = "embedding"
    /\ UNCHANGED <<engineConfig, isConnected, calls, allMatches, response, now, searchStart>>
    /\ UNCHANGED notEngine

\* The calls issued by executeMultiNamespaceSearch once the client is connected:
\* all of them on the parallel path, the first one on the sequential path
IssueCalls ==
    /\ calls' = [i \in 1..Len(targetNamespaces) |->
                    IF ParallelPath \/ i = 1 THEN Pending ELSE NotStarted]
    /\ searchStart' = now
    /\ epc' = "searching"

\* generateQueryEmbedding resolves; executeMultiNamespaceSearch starts
EmbeddingOk ==
    /\ epc = "embedding"
    /\ IF isConnected
       THEN IssueCalls
       ELSE epc' = "connecting" /\ UNCHANGED <<calls, searchStart>>
    /\ UNCHANGED <<engineConfig, isConnected, options, targetNamespaces, allMatches,
                   response, now>>
    /\ UNCHANGED notEngine

\* generateQueryEmbedding throws; the catch block of query() answers
EmbeddingFail ==
    /\ epc = "embedding"
    /\ response' = ErrorResponse
    /\ epc' = "returned"
    /\ UNCHANGED <<engineConfig, isConnected, options, targetNamespaces, calls,
                   allMatches, now, searchStart>>
    /\ UNCHANGED notEngine

\* pineconeClient.connect() resolves
ConnectOk ==
    /\ epc = "connecting"
    /\ isConnected' = TRUE
    /\ IssueCalls
    /\ UNCHANGED <<engineConfig, options, targetNamespaces, allMatches, response, now>>
    /\ UNCHANGED notEngine

\* pineconeClient.connect() throws; the catch block of query() answers
ConnectFail ==
    /\ epc = "connecting"
    /\ response' = ErrorResponse
    /\ epc' = "returned"
    /\ UNCHANGED <<engineConfig, isConnected, options, targetNamespaces, calls,
                   allMatches, now, searchStart>>
    /\ UNCHANGED notEngine

\* Sequential path: the loop body after one awaited call has settled; the
\* next call is issued, or the search returns and query() runs to its end
SequentialStep(i, settled) ==
    LET gathered == IF settled.status = "ok"
                    THEN allMatches \o TagMatches(settled.matches, targetNamespaces[i], 100)
                    ELSE allMatches
    IN  /\ allMatches' = gathered
        /\ IF i < Len(targetNamespaces)
           THEN /\ calls' = [calls EXCEPT ![i] = settled, ![i + 1] = Pending]
                /\ UNCHANGED <<epc, response>>
           ELSE /\ calls' = [calls EXCEPT ![i] = settled]
                /\ response' = processResults(gathered, options)
                /\ epc' = "returned"

\* The vector store answers the query of namespace i
NamespaceRespond(i) ==
    /\ epc = "searching"
    /\ i \in 1..Len(calls)
    /\ calls[i].status = "pending"
    /\ \E matches \in StoreAnswers(targetNamespaces[i], adjustedTopK(options.topK)) :
          LET settled == [status |-> "ok", matches |-> matches] IN
          IF ParallelPath
          THEN /\ calls' = [calls EXCEPT ![i] = settled]
               /\ UNCHANGED <<allMatches, response, epc>>
          ELSE SequentialStep(i, settled)
    /\ UNCHANGED <<engineConfig, isConnected, options, targetNamespaces, now, searchStart>>
    /\ UNCHANGED notEngine

\* The query of namespace i throws
NamespaceFail(i) ==
    /\ epc = "searching"
    /\ i \in 1..Len(calls)
    /\ calls[i].status = "pending"
    /\ LET settled == [status |-> "failed", matches |-> <<>>] IN
       IF ParallelPath
       THEN /\ calls' = [calls EXCEPT ![i] = settled]
            /\ UNCHANGED <<allMatches, response, epc>>
       ELSE SequentialStep(i, settled)
    /\ UNCHANGED <<engineConfig, isConnected, options, targetNamespaces, now, searchStart>>
    /\ UNCHANGED notEngine

\* Parallel path: Promise.all has settled; merge, then query() runs to its end
Join ==
    /\ epc = "searching"
    /\ ParallelPath
    /\ \A i \in 1..Len(calls) : Settled(calls[i])
    /\ LET results == [i \in 1..Len(calls) |-> searchPromise(targetNamespaces[i], calls[i])]
       IN  IF \E i \in 1..Len(results) : results[i].rejected
           THEN /\ response' = ErrorResponse
                /\ UNCHANGED allMatches
           ELSE /\ allMatches' = mergeInputOf(results)
                /\ response' = processResults(
                       mergeNamespaceResults(results, adjustedTopK(options.topK)), options)
    /\ epc' = "returned"
    /\ UNCHANGED <<engineConfig, isConnected, options, targetNamespaces, calls, now,
                   searchStart>>
    /\ UNCHANGED notEngine

\* Time passes while query() waits for a namespace that has not answered
Tick ==
    /\ epc = "searching"
    /\ \E i \in 1..Len(calls) : calls[i].status = "pending"
    /\ now < TickMs * MaxTicks
    /\ now' = now + TickMs
    /\ UNCHANGED <<epc, engineConfig, isConnected, options, targetNamespaces, calls,
                   allMatches, response, searchStart>>
    /\ UNCHANGED notEngine

EngineSteps(optionSet) ==
    \/ Query(optionSet)
    \/ EmbeddingOk
    \/ EmbeddingFail
    \/ ConnectOk
    \/ ConnectFail
    \/ \E i \in 1..Len(calls) : NamespaceRespond(i)
    \/ \E i \in 1..Len(calls) : NamespaceFail(i)
    \/ Join

--------------------------------------------------------------------------
(* QueryEngine.rerankResults on its own                                    *)

\* Further matches of the vector store, whose enhanced scores lie within 0.1
\* of each other pairwise but not end to end
NearTiePool ==
    { [id |-> "m4", score |-> 8000, document_type |-> "none", quality_score |-> 10],
      [id |-> "m5", score |-> 5650, document_type |-> "decreto", quality_score |-> 50],
      [id |-> "m6", score |-> 4850, document_type |-> "legge", quality_score |-> 90] }

\* The matches as they reach rerankResults: tagged and enhanced
EnhancedPool ==
    { enhanceMatch(TagMatches(<<m>>, "__default__", 100)[1]) :
          m \in MatchPool \cup NearTiePool }

\* Longest array handed to rerankResults
MaxRerank == 3

IsInjective(s) == \A i, j \in 1..Len(s) : s[i] = s[j] => i = j

RerankInputs == { s \in SeqsUpTo(EnhancedPool, MaxRerank) : IsInjective(s) }

RerankInit ==
    /\ kpc = "idle"
    /\ rerankInput = <<>>
    /\ rerankOutput = <<>>

RerankIdle ==
    /\ kpc = "off"
    /\ rerankInput = <<>>
    /\ rerankOutput = <<>>

\* engine.rerankResults(results, queryText)
RerankResults ==
    /\ kpc = "idle"
    /\ \E results \in RerankInputs :
          /\ rerankInput' = results
          /\ rerankOutput' = rerankResults(results)
    /\ kpc' = "done"
    /\ UNCHANGED notRerank

RerankNext == RerankResults

--------------------------------------------------------------------------
(* LegalChunker: text helpers.  A text is a sequence of characters.        *)

tokenRatio == 4

IsSpace(c) == c \in {" ", "\n"}

IsDigit(c) == c \in {"0", "1", "2"}

IsUpper(c) == c \in {"A", "B", "C"}

IsLowerLetter(c) == c \in {"a", "b", "e", "l", "m", "o", "r", "t", "i", "c"}

\* String.prototype.trim on a character sequence
RECURSIVE TrimStart(_)
TrimStart(s) == IF s # <<>> /\ IsSpace(Head(s)) THEN TrimStart(Tail(s)) ELSE s

RECURSIVE TrimEnd(_)
TrimEnd(s) ==
    IF s # <<>> /\ IsSpace(s[Len(s)]) THEN TrimEnd(SubSeq(s, 1, Len(s) - 1)) ELSE s

trim(s) == TrimEnd(TrimStart(s))

\* text.substring(from, to), 0-based and end-exclusive as in JavaScript
substring(s, from, to) == SubSeq(s, Min2(from, Len(s)) + 1, Min2(to, Len(s)))

\* 0-based index of the last / first occurrence, -1 when there is none
lastIndexOf(s, c) ==
    LET hits == { i \in 1..Len(s) : s[i] = c }
    IN  IF hits = {} THEN -1 ELSE (CHOOSE i \in hits : \A j \in hits : j <= i) - 1

indexOfDotSpace(s) ==
    LET hits == { i \in 1..(Len(s) - 1) : s[i] = "." /\ s[i + 1] = " " }
    IN  IF hits = {} THEN -1 ELSE (CHOOSE i \in hits : \A j \in hits : i <= j) - 1

\* Math.ceil(text.length / this.tokenRatio), 0 for the empty text
estimateTokens(text) ==
    IF Len(text) = 0 THEN 0 ELSE (Len(text) + tokenRatio - 1) \div tokenRatio

\* The text at 1-based position p starts with the literal lit
StartsWith(s, p, lit) ==
    /\ p + Len(lit) - 1 <= Len(s)
    /\ \A k \in 1..Len(lit) : s[p + k - 1] = lit[k]

\* First position >= p that holds no whitespace (\s*), Len(s)+1 at the end
RECURSIVE SkipSpaces(_, _)
SkipSpaces(s, p) == IF p <= Len(s) /\ IsSpace(s[p]) THEN SkipSpaces(s, p + 1) ELSE p

\* First position >= p that holds no digit (\d*)
RECURSIVE SkipDigits(_, _)
SkipDigits(s, p) == IF p <= Len(s) /\ IsDigit(s[p]) THEN SkipDigits(s, p + 1) ELSE p

DigitAt(s, p) == p <= Len(s) /\ IsDigit(s[p])

\* The separators of the configuration, strongest boundary first
separators ==
    <<"article", "comma", "letter", "paragraph", "sentence", "semicolon", "comma_punct">>

\* remainingText.matchAll(separator.pattern) has a match whose index is p - 1
SeparatorMatchAt(name, s, p) ==
    CASE name = "article" ->
            \* /(?=Art\.|Articolo\s*\d+)/g
            \/ StartsWith(s, p, <<"A", "r", "t", ".">>)
            \/ /\ StartsWith(s, p, <<"A", "r", "t", "i", "c", "o", "l", "o">>)
               /\ DigitAt(s, SkipSpaces(s, p + 8))
      [] name = "comma" ->
            \* /(?=Comma\s*\d+|^\d+\.)/gm
            \/ /\ StartsWith(s, p, <<"C", "o", "m", "m", "a">>)
               /\ DigitAt(s, SkipSpaces(s, p + 5))
            \/ /\ p = 1 \/ s[p - 1] = "\n"
               /\ DigitAt(s, p)
               /\ SkipDigits(s, p) <= Len(s)
               /\ s[SkipDigits(s, p)] = "."
      [] name = "letter" ->
            \* /(?=lett\.\s*[a-z]\)|lettera\s*[a-z]\))/g
            \/ /\ StartsWith(s, p, <<"l", "e", "t", "t", ".">>)
               /\ LET q == SkipSpaces(s, p + 5)
                  IN  q + 1 <= Len(s) /\ IsLowerLetter(s[q]) /\ s[q + 1] = ")"
            \/ /\ StartsWith(s, p, <<"l", "e", "t", "t", "e", "r", "a">>)
               /\ LET q == SkipSpaces(s, p + 7)
                  IN  q + 1 <= Len(s) /\ IsLowerLetter(s[q]) /\ s[q + 1] = ")"
      [] name = "paragraph" ->
            \* /\n\s*\n/g : the first newline of a whitespace run that holds
            \* two newlines or more (the greedy match takes the others)
            /\ p <= Len(s) /\ s[p] = "\n"
            /\ \E q \in (p + 1)..Len(s) :
                  s[q] = "\n" /\ \A k \in p..q : IsSpace(s[k])
            /\ ~\E q \in 1..(p - 1) :
                  s[q] = "\n" /\ \A k \in q..p : IsSpace(s[k])
      [] name = "sentence" ->
            \* /\.\s+(?=[A-Z])/g
            /\ p + 1 <= Len(s) /\ s[p] = "." /\ IsSpace(s[p + 1])
            /\ LET q == SkipSpaces(s, p + 1) IN q <= Len(s) /\ IsUpper(s[q])
      [] name = "semicolon" ->
            \* /;\s+/g
            p + 1 <= Len(s) /\ s[p] = ";" /\ IsSpace(s[p + 1])
      [] name = "comma_punct" ->
            \* /,\s+/g
            p + 1 <= Len(s) /\ s[p] = "," /\ IsSpace(s[p + 1])

\* The in-range split positions (0-based match.index) of one separator
GoodSplits(name, s, cfg) ==
    { idx \in 1..(Len(s) - 1) :
        /\ SeparatorMatchAt(name, s, idx + 1)
        /\ estimateTokens(substring(s, 0, idx)) >= cfg.minChunkSize
        /\ estimateTokens(substring(s, 0, idx)) <= cfg.maxChunkSize }

\* bestSplit: the first in-range match of the strongest separator that has
\* one; -1 when no separator has an in-range match
BestSplit(s, cfg) ==
    LET usable == { k \in 1..Len(separators) : GoodSplits(separators[k], s, cfg) # {} }
    IN  IF usable = {} THEN [position |-> -1, separatorUsed |-> "none"]
        ELSE LET k == CHOOSE x \in usable : \A y \in usable : x <= y
                 g == GoodSplits(separators[k], s, cfg)
             IN  [position |-> CHOOSE i \in g : \A j \in g : i <= j,
                  separatorUsed |-> separators[k]]

\* ForceCut that cuts back to the last space even when there is none
ForceCutAtSpace(s, cfg) ==
    LET maxChars  == cfg.maxChunkSize * tokenRatio
        chunkText == substring(s, 0, maxChars)
        lastSpace == lastIndexOf(chunkText, " ")
    IN  substring(chunkText, 0, Max2(lastSpace, 0))

\* The else branch of splitTextBySeparators: the longest allowed prefix,
\* cut back to its last space
ForceCut(s, cfg) ==
    LET maxChars  == cfg.maxChunkSize * tokenRatio
        chunkText == substring(s, 0, maxChars)
        lastSpace == lastIndexOf(chunkText, " ")
    IN  IF lastSpace > 0 THEN substring(chunkText, 0, lastSpace) ELSE chunkText

RECURSIVE splitTextBySeparators(_, _)
splitTextBySeparators(text, cfg) ==
    IF Len(text) = 0 THEN <<>>
    ELSE LET bestSplit == BestSplit(text, cfg) IN
         IF bestSplit.position >= 0
         THEN <<[text |-> trim(substring(text, 0, bestSplit.position)),
                 separatorUsed |-> bestSplit.separatorUsed]>>
              \o splitTextBySeparators(
                     trim(substring(text, bestSplit.position, Len(text))),
                     cfg)
         ELSE LET actualChunk == ForceCut(text, cfg) IN
              <<[text |-> trim(actualChunk), separatorUsed |-> "force_split"]>>
              \o splitTextBySeparators(
                     trim(substring(text, Len(actualChunk), Len(text))),
                     cfg)

\* An article or comma number that is absent from the hierarchy
NoNumber == 0

\* calculateOverlap(text, position)
\* calculateOverlap that never asks for an overlap
calculateOverlapNone(position, cfg) == 0

calculateOverlap(position, cfg) == IF position > 0 THEN cfg.overlapSize ELSE 0

calculateQualityScore(text, hierarchy, type, cfg) ==
    LET tokens == estimateTokens(text)
        score  == 50
                  + (IF hierarchy.article # NoNumber THEN 20 ELSE 0)
                  + (IF hierarchy.comma # NoNumber THEN 10 ELSE 0)
                  + (IF tokens >= cfg.minChunkSize /\ tokens <= cfg.maxChunkSize
                     THEN 15 ELSE 0)
                  + (IF type = "complete_article" THEN 10 ELSE 0)
                  - (IF type = "force_split" THEN 20 ELSE 0)
    IN  Max2(0, Min2(100, score))

\* generateChunkId: the document id is the same for every chunk of a document
generateChunkId(hierarchy, position) ==
    [article |-> hierarchy.article, comma |-> hierarchy.comma, position |-> position]

\* createChunk; ownText is the chunk's text before any overlap is prepended
createChunk(text, position, hierarchy, type, cfg) ==
    [chunk_id |-> generateChunkId(hierarchy, position),
     text |-> trim(text),
     ownText |-> trim(text),
     tokens |-> estimateTokens(text),
     position_in_doc |-> position,
     hierarchy |-> hierarchy,
     chunk_type |-> type,
     overlap_with_previous |-> calculateOverlap(position, cfg),
     quality_score |-> calculateQualityScore(text, hierarchy, type, cfg)]

\* The loop of forceSplitText, from offset i
RECURSIVE forceSplitFrom(_, _, _, _, _)
forceSplitFrom(text, i, hierarchy, position, cfg) ==
    LET maxChars == cfg.maxChunkSize * tokenRatio
        whole    == substring(text, i, i + maxChars)
        lastSpace == lastIndexOf(whole, " ")
        \* lastSpace > maxChars * 0.8
        chunkText == IF i + maxChars < Len(text) /\ lastSpace * 10 > maxChars * 8
                     THEN substring(whole, 0, lastSpace)
                     ELSE whole
    IN  IF i >= Len(text) THEN <<>>
        ELSE <<createChunk(chunkText, position, hierarchy, "force_split", cfg)>>
             \o forceSplitFrom(text, i + maxChars, hierarchy, position + 1, cfg)

forceSplitText(text, hierarchy, startPosition, cfg) ==
    forceSplitFrom(text, 0, hierarchy, startPosition, cfg)

\* The loop of chunkText over the segments, from segment i
RECURSIVE chunkTextLoop(_, _, _, _, _, _)
chunkTextLoop(textSegments, i, currentChunk, position, hierarchy, cfg) ==
    IF i > Len(textSegments)
    THEN IF currentChunk # <<>>
         THEN <<createChunk(currentChunk, position, hierarchy, "final_segment", cfg)>>
         ELSE <<>>
    ELSE LET segment == textSegments[i]
             potentialChunk ==
                 currentChunk \o (IF currentChunk # <<>> THEN <<" ">> ELSE <<>>) \o segment.text
         IN  IF estimateTokens(potentialChunk) <= cfg.maxChunkSize
             THEN chunkTextLoop(textSegments, i + 1, potentialChunk, position, hierarchy, cfg)
             ELSE LET finalized ==
                          IF currentChunk # <<>>
                          THEN <<createChunk(currentChunk, position, hierarchy,
                                             "text_segment", cfg)>>
                          ELSE <<>>
                      position1 == position + Len(finalized)
                  IN  IF estimateTokens(segment.text) > cfg.maxChunkSize
                      THEN LET forceChunks ==
                                   forceSplitText(segment.text, hierarchy, position1, cfg)
                           IN  finalized \o forceChunks
                               \o chunkTextLoop(textSegments, i + 1, <<>>,
                                                position1 + Len(forceChunks), hierarchy, cfg)
                      ELSE finalized
                           \o chunkTextLoop(textSegments, i + 1, segment.text,
                                            position1, hierarchy, cfg)

chunkText(text, hierarchy, startPosition, cfg) ==
    chunkTextLoop(splitTextBySeparators(text, cfg), 1, <<>>, startPosition, hierarchy, cfg)

\* The forEach over the commas of chunkLargeArticle, from comma k
RECURSIVE chunkCommasFrom(_, _, _, _)
chunkCommasFrom(article, k, position, cfg) ==
    IF k > Len(article.commas) THEN <<>>
    ELSE LET comma == article.commas[k]
             hierarchy == [article |-> article.number, comma |-> comma.number]
             commaChunks ==
                 IF estimateTokens(comma.content) <= cfg.maxChunkSize
                 THEN <<createChunk(comma.content, position, hierarchy,
                                    "article_comma", cfg)>>
                 ELSE chunkText(comma.content, hierarchy, position, cfg)
         IN  commaChunks \o chunkCommasFrom(article, k + 1, position + Len(commaChunks), cfg)

\* chunkLargeArticle that numbers its chunks from 0 whatever startPosition is
chunkLargeArticleFromZero(article, startPosition, cfg) ==
    IF Len(article.commas) > 1
    THEN chunkCommasFrom(article, 1, 0, cfg)
    ELSE chunkText(article.content,
                   [article |-> article.number, comma |-> NoNumber], 0, cfg)

chunkLargeArticle(article, startPosition, cfg) ==
    IF Len(article.commas) > 1
    THEN chunkCommasFrom(article, 1, startPosition, cfg)
    ELSE chunkText(article.content,
                   [article |-> article.number, comma |-> NoNumber], startPosition, cfg)

\* The forEach over the articles of chunkByArticles, from article a
RECURSIVE chunkArticlesFrom(_, _, _, _)
chunkArticlesFrom(articles, a, globalPosition, cfg) ==
    IF a > Len(articles) THEN <<>>
    ELSE LET article == articles[a]
             articleChunks ==
                 IF estimateTokens(article.content) <= cfg.maxChunkSize
                 THEN <<createChunk(article.content, globalPosition,
                                    [article |-> article.number, comma |-> NoNumber],
                                    "complete_article", cfg)>>
                 ELSE chunkLargeArticle(article, globalPosition, cfg)
         IN  articleChunks
             \o chunkArticlesFrom(articles, a + 1, globalPosition + Len(articleChunks), cfg)

chunkByArticles(parsedDocument, cfg) ==
    chunkArticlesFrom(parsedDocument.articles, 1, 0, cfg)

chunkByStructure(parsedDocument, cfg) ==
    chunkText(parsedDocument.fullText, [article |-> NoNumber, comma |-> NoNumber], 0, cfg)

\* extractOverlapText without the cut to the last overlapChars characters
extractOverlapTextUncut(previousText, overlapTokens) == previousText

extractOverlapText(previousText, overlapTokens) ==
    LET overlapChars == overlapTokens * tokenRatio IN
    IF Len(previousText) <= overlapChars THEN previousText
    ELSE LET overlapText == substring(previousText, Len(previousText) - overlapChars,
                                      Len(previousText))
             sentenceStart == indexOfDotSpace(overlapText)
         IN  \* sentenceStart > 0 && sentenceStart < overlapChars * 0.3
             IF sentenceStart > 0 /\ sentenceStart * 10 < overlapChars * 3
             THEN substring(overlapText, sentenceStart + 2, Len(overlapText))
             ELSE overlapText

\* The map of postProcessChunks: chunk index i, given the chunk before it as
\* the map left it (the chunk objects are modified in place)
addOverlap(chunk, prevChunk) ==
    LET overlapText == extractOverlapText(prevChunk.text, chunk.overlap_with_previous)
    IN  IF chunk.overlap_with_previous > 0 /\ overlapText # <<>>
        THEN [chunk EXCEPT !.text = overlapText \o <<" ">> \o chunk.text,
                           !.tokens = estimateTokens(overlapText \o <<" ">> \o chunk.text)]
        ELSE chunk

RECURSIVE overlapPass(_, _, _)
overlapPass(chunks, i, done) ==
    IF i > Len(chunks) THEN done
    ELSE overlapPass(chunks, i + 1,
             Append(done, IF i > 1 THEN addOverlap(chunks[i], done[i - 1]) ELSE chunks[i]))

\* chunk.text.length > 20 && chunk.tokens > 10
isValid(chunk) == Len(chunk.text) > 20 /\ chunk.tokens > 10

postProcessChunks(chunks) == SelectSeq(overlapPass(chunks, 1, <<>>), isValid)

\* The chunks of chunkDocument before post-processing
rawChunksOf(parsedDocument, cfg) ==
    IF Len(parsedDocument.articles) > 0
    THEN chunkByArticles(parsedDocument, cfg)
    ELSE chunkByStructure(parsedDocument, cfg)

chunkDocument(parsedDocument, cfg) == postProcessChunks(rawChunksOf(parsedDocument, cfg))

--------------------------------------------------------------------------
(* LegalChunker: inputs and operation                                      *)

Rep(c, n) == [i \in 1..n |-> c]

\* The pieces article texts are made of: a word, a sentence end, a
\* semicolon clause, a short word, an article heading
Pieces ==
    { Rep("a", 12),
      Rep("a", 9) \o <<".", " ", "B">>,
      Rep("a", 10) \o <<";", " ">>,
      Rep("a", 3),
      <<"A", "r", "t", ".", " ", "1", " ">> \o Rep("a", 5) }

\* Longest article text, in pieces
MaxPieces == 4

Contents == { Flatten(ps) : ps \in SeqsUpTo(Pieces, MaxPieces) }

\* The texts of the article that precedes the article under study
LeadContents == { Rep("a", 12), Rep("a", 48) }

\* The constructor's config argument: sizes in tokens
ChunkerConfigs ==
    { [minChunkSize |-> 4, maxChunkSize |-> 8, overlapSize |-> 3],
      [minChunkSize |-> 8, maxChunkSize |-> 12, overlapSize |-> 2] }

NoCommas == <<>>

\* The two commas of an article whose text is cut after its first half
CommasOf(pieces) ==
    LET h == Len(pieces) \div 2 IN
    << [number |-> 1, content |-> trim(Flatten(SubSeq(pieces, 1, h)))],
       [number |-> 2, content |-> trim(Flatten(SubSeq(pieces, h + 1, Len(pieces))))] >>

MainArticles(number) ==
    { [number |-> number, content |-> Flatten(ps), commas |-> NoCommas] :
          ps \in SeqsUpTo(Pieces, MaxPieces) }
    \cup
    { [number |-> number, content |-> Flatten(ps), commas |-> CommasOf(ps)] :
          ps \in { qs \in SeqsUpTo(Pieces, MaxPieces) : Len(qs) >= 2 } }

\* Documents without articles: the list is empty or the articles property
\* is absent (articlesPresent FALSE), the text is empty or short
MalformedDocuments ==
    { [articles |-> <<>>, fullText |-> t, articlesPresent |-> present] :
          t \in {<<>>, Rep("a", 12)}, present \in BOOLEAN }

ParsedDocuments ==
    { [articles |-> <<>>, fullText |-> c, articlesPresent |-> TRUE] : c \in Contents }
    \cup MalformedDocuments
    \cup
    { [articles |-> <<a>>, fullText |-> a.content, articlesPresent |-> TRUE] :
          a \in MainArticles(1) }
    \cup
    { [articles |-> <<[number |-> 1, content |-> lead, commas |-> NoCommas], a>>,
       fullText |-> lead \o <<" ">> \o a.content, articlesPresent |-> TRUE] :
          lead \in LeadContents,
          a \in { m \in MainArticles(2) : m.commas = NoCommas } }

NoDocument == [articles |-> <<>>, fullText |-> <<>>, articlesPresent |-> TRUE]

ChunkerInit ==
    /\ cpc = "idle"
    /\ chunkerConfig \in ChunkerConfigs
    /\ inputDocument = NoDocument
    /\ rawChunks = <<>>
    /\ processedChunks = <<>>

ChunkerIdle ==
    /\ cpc = "off"
    /\ chunkerConfig = [minChunkSize |-> 800, maxChunkSize |-> 1200, overlapSize |-> 200]
    /\ inputDocument = NoDocument
    /\ rawChunks = <<>>
    /\ processedChunks = <<>>

\* chunker.chunkDocument(parsedDocument)
\* The result object is built from parsedDocument.articles.length, which
\* throws when the articles property is absent
ChunkDocumentOf(documents) ==
    /\ cpc = "idle"
    /\ \E doc \in documents :
          /\ inputDocument' = doc
          /\ rawChunks' = rawChunksOf(doc, chunkerConfig)
    /\ IF inputDocument'.articlesPresent
       THEN /\ processedChunks' = postProcessChunks(rawChunks')
            /\ cpc' = "done"
       ELSE /\ processedChunks' = <<>>
            /\ cpc' = "threw"
    /\ UNCHANGED chunkerConfig
    /\ UNCHANGED notChunker

ChunkDocument == ChunkDocumentOf(ParsedDocuments)

\* Documents as LegalParser builds them: every article has at least 50
\* characters and every comma more than 20.  The article texts: a shortest
\* one, a largest single-chunk one, one without any separator, one whose
\* first sentence is tiny, one with a short and a long comma, one with two
\* short commas
ParserArticle(content, commaContents) ==
    [content |-> content,
     commas |-> [k \in 1..Len(commaContents) |->
                    [number |-> k, content |-> commaContents[k]]]]

ParserArticles ==
    { ParserArticle(Rep("a", 50), <<>>),
      ParserArticle(Rep("a", 64), <<>>),
      ParserArticle(Rep("a", 100), <<>>),
      ParserArticle(Rep("a", 5) \o <<".", " ", "B">> \o Rep("a", 70), <<>>),
      ParserArticle(Rep("a", 21) \o <<" ">> \o Rep("b", 70),
                    <<Rep("a", 21), Rep("b", 70)>>),
      ParserArticle(Rep("a", 30) \o <<" ">> \o Rep("b", 36),
                    <<Rep("a", 30), Rep("b", 36)>>) }

\* Most articles of a parser document
MaxArticles == 3

ParserDocuments ==
    { [articles |-> [k \in 1..Len(as) |->
                        [number |-> k, content |-> as[k].content,
                         commas |-> as[k].commas]],
       fullText |-> Flatten([k \in 1..Len(as) |-> as[k].content \o <<" ">>]),
       articlesPresent |-> TRUE] :
          as \in SeqsUpTo(ParserArticles, MaxArticles) \ {<<>>} }

\* The default sizes in proportion: an article of the parser's shortest
\* length is one chunk, and a full overlap alone passes the validity filter
ParserChunkerConfig == [minChunkSize |-> 10, maxChunkSize |-> 16, overlapSize |-> 11]

ParserChunkerInit ==
    /\ cpc = "idle"
    /\ chunkerConfig = ParserChunkerConfig
    /\ inputDocument = NoDocument
    /\ rawChunks = <<>>
    /\ processedChunks = <<>>

ChunkParserDocument == ChunkDocumentOf(ParserDocuments)

ChunkerNext == ChunkDocument

--------------------------------------------------------------------------
(* ResponseGenerator (src/api/response_generator.js) and the emergency     *)
(* reply of the optimized handler (src/api/query-optimized.js).            *)
(* Texts are sequences of tokens: a token is a literal of the source or a  *)
(* value interpolated into it. Scores and confidences are ten-thousandths. *)

\* this.disclaimerTemplates
disclaimerTemplates ==
    [full     |-> <<"Disclaimer Legale: valore puramente informativo", "{lastUpdate}",
                    "Versione database", "{dbVersion}">>,
     minimal  |-> <<"Informazioni a scopo orientativo">>,
     regional |-> <<"Disclaimer Legale: informazioni regionali">>]

\* String.prototype.replace with a string pattern: the first occurrence only
replaceFirst(text, pattern, value) ==
    IF \E k \in 1..Len(text) : text[k] = pattern
    THEN LET first == CHOOSE k \in 1..Len(text) :
                         text[k] = pattern /\ \A j \in 1..(k-1) : text[j] # pattern
         IN [k \in 1..Len(text) |-> IF k = first THEN value ELSE text[k]]
    ELSE text

\* The days getLastUpdateDate can return
Dates == {"2025-01-01", "2025-01-02"}

\* The constructor's config, with the fields generateResponse reads
GeneratorConfigs ==
    [maxSources : {8, 2}, maxFollowUps : {4}, enableFollowUps : BOOLEAN,
     enableLegalDisclaimer : BOOLEAN, disclaimerVersion : {"1.0"}]

GeneratorMatch(id, namespace, score, scoreIsNumber, documentType) ==
    [id |-> id, source_namespace |-> namespace, score |-> score,
     scoreIsNumber |-> scoreIsNumber, document_type |-> documentType]

\* The matches handed to generateResponse; g5 carries no score
SearchResultPool ==
    { GeneratorMatch("g1", "laws-national", 9000, TRUE, "legge"),
      GeneratorMatch("g2", "laws-regional", 7500, TRUE, "legge"),
      GeneratorMatch("g3", "urbanistica-base", 6000, TRUE, "urban_planning"),
      GeneratorMatch("g4", "urbanistica-base", 2000, TRUE, ""),
      GeneratorMatch("g5", "jurisprudence", 0, FALSE, "sentenza") }

\* Longest match list handed to generateResponse
MaxSearchResults == 5

SearchResultLists == { s \in SeqsUpTo(SearchResultPool, MaxSearchResults) : IsInjective(s) }

\* The classifications handed to generateResponse; a confidence of 0 is
\* replaced by 0.5 in calculateConfidence
GeneratorClassifications ==
    { [strategy |-> "legal-only", needsLegalDisclaimer |-> TRUE, confidence |-> 3000],
      [strategy |-> "regional-focus", needsLegalDisclaimer |-> TRUE, confidence |-> 10000],
      [strategy |-> "urban-only", needsLegalDisclaimer |-> FALSE, confidence |-> 5000],
      [strategy |-> "urban-only", needsLegalDisclaimer |-> FALSE, confidence |-> 0] }

determineSourceType(result) ==
    IF result.source_namespace \in {"laws-national", "laws-regional"} THEN "legal"
    ELSE IF result.source_namespace = "laws-regional" THEN "regional"
    ELSE IF result.source_namespace = "jurisprudence" THEN "jurisprudence"
    ELSE "urban"

categorizeRelevance(result) ==
    IF ~result.scoreIsNumber THEN "very_low"
    ELSE IF result.score >= 8000 THEN "high"
    ELSE IF result.score >= 6000 THEN "medium"
    ELSE IF result.score >= 4000 THEN "low"
    ELSE "very_low"

processSearchResults(results, cfg) ==
    LET limitedResults == Take(ArraySort(results, "relevance"), cfg.maxSources)
    IN [k \in 1..Len(limitedResults) |->
           [id |-> limitedResults[k].id,
            source_namespace |-> limitedResults[k].source_namespace,
            score |-> limitedResults[k].score,
            scoreIsNumber |-> limitedResults[k].scoreIsNumber,
            document_type |-> limitedResults[k].document_type,
            rank |-> k,
            relevanceCategory |-> categorizeRelevance(limitedResults[k]),
            sourceType |-> determineSourceType(limitedResults[k])]]

\* A confidence is the fraction num / den; NaN has den = 0
Fraction(num, den) == [num |-> num, den |-> den]

NaN == Fraction(0, 0)

\* calculateConfidence, in units of 1 / (sources.length * 10^6)
calculateConfidence(sources, class) ==
    IF Len(sources) = 0 THEN Fraction(1, 10)
    ELSE IF \E k \in 1..Len(sources) : ~sources[k].scoreIsNumber THEN NaN
    ELSE LET n == Len(sources)
             unit == 100 * ScoreScale * n
             scoreSum == SumFn([k \in 1..n |-> sources[k].score], 1..n)
             base == (IF class.confidence # 0 THEN class.confidence ELSE 5000) * 100 * n
             boosted == Min2(base + 30 * scoreSum, (95 * unit) \div 100)
             counted == boosted + (IF n >= 3 THEN (5 * unit) \div 100 ELSE 0)
                                + (IF n >= 5 THEN (5 * unit) \div 100 ELSE 0)
             penalized == IF scoreSum < 7000 * n THEN (counted * 4) \div 5 ELSE counted
         IN Fraction(Max2(unit \div 10, Min2((95 * unit) \div 100, penalized)), unit)

\* generateAnswer for the strategies of GeneratorClassifications: the opening
\* of the strategy and one excerpt per source used (urban-only uses the top
\* three sources, legal-only and regional-focus the top two)
generateAnswer(sources, class) ==
    IF Len(sources) = 0
    THEN <<"Mi dispiace, non ho trovato informazioni specifiche">>
    ELSE LET topSources == Take(sources, 3)
             used == IF class.strategy = "urban-only" THEN topSources
                     ELSE Take(topSources, 2)
         IN <<class.strategy>> \o [k \in 1..Len(used) |-> used[k].id]

\* formatSources throws a TypeError at source.score.toFixed when a source
\* has no score
formatSourcesThrows(sources) == \E k \in 1..Len(sources) : ~sources[k].scoreIsNumber

ToFixedError == "Cannot read properties of undefined (reading 'toFixed')"

formatSources(sources) ==
    [k \in 1..Len(sources) |->
        [type |-> sources[k].sourceType,
         relevance |-> ((sources[k].score + 5) \div 10) * 10,
         namespace |-> sources[k].source_namespace]]

\* generateLegalDisclaimer that hands back nothing when there are no sources
generateLegalDisclaimerForSources(sources, cfg, today) ==
    IF ~cfg.enableLegalDisclaimer \/ Len(sources) = 0 THEN Null
    ELSE replaceFirst(replaceFirst(disclaimerTemplates.full, "{lastUpdate}", today),
                      "{dbVersion}", cfg.disclaimerVersion)

generateLegalDisclaimer(sources, cfg, today) ==
    IF ~cfg.enableLegalDisclaimer THEN Null
    ELSE LET hasRegionalSources == \E k \in 1..Len(sources) : sources[k].sourceType = "regional"
             template == IF hasRegionalSources THEN disclaimerTemplates.regional
                         ELSE disclaimerTemplates.full
         IN replaceFirst(replaceFirst(template, "{lastUpdate}", today),
                         "{dbVersion}", cfg.disclaimerVersion)

generateFollowUps(sources, class, cfg) ==
    LET byStrategy ==
            IF class.strategy = "legal-urban"
            THEN <<"Vuoi approfondire i requisiti procedurali specifici?",
                   "Ti interessa la normativa regionale per la tua zona?">>
            ELSE IF class.strategy = "regional-focus"
            THEN <<"Vuoi confrontare con la normativa nazionale?",
                   "Ti servono informazioni su altre regioni?">>
            ELSE IF class.strategy = "legal-only"
            THEN <<"Vuoi vedere come si applica in pratica urbanistica?",
                   "Ti interessa la giurisprudenza correlata?">>
            ELSE <<>>
        documentTypes == { sources[k].document_type : k \in 1..Len(sources) }
        bySources == IF Cardinality(documentTypes) > 1
                     THEN <<"Vuoi approfondire un tipo specifico di normativa?">>
                     ELSE <<>>
    IN Take(byStrategy \o bySources \o
            <<"Hai bisogno di chiarimenti su punti specifici?",
              "Vuoi esempi pratici di applicazione?">>, cfg.maxFollowUps)

\* The response of the catch block of generateResponse
errorResponse(class, message) ==
    [answer |-> <<"Mi dispiace, si e' verificato un errore nella generazione della risposta. Riprova piu' tardi.">>,
     confidence |-> Fraction(0, 1),
     sources |-> <<>>,
     legal_disclaimer |-> IF class.needsLegalDisclaimer THEN disclaimerTemplates.minimal ELSE Null,
     follow_up |-> <<>>,
     metadata |-> [error |-> message, strategy |-> class.strategy],
     failed |-> TRUE]

\* generateResponse(queryText, searchResults, classification); failed tells
\* which of the two return statements produced the value
generateResponse(results, class, cfg, today) ==
    LET processedSources == processSearchResults(results, cfg)
    IN IF formatSourcesThrows(processedSources)
       THEN errorResponse(class, ToFixedError)
       ELSE [answer |-> generateAnswer(processedSources, class),
             confidence |-> calculateConfidence(processedSources, class),
             sources |-> formatSources(processedSources),
             legal_disclaimer |-> IF class.needsLegalDisclaimer
                                  THEN generateLegalDisclaimer(processedSources, cfg, today)
                                  ELSE Null,
             follow_up |-> IF cfg.enableFollowUps
                           THEN generateFollowUps(processedSources, class, cfg)
                           ELSE <<>>,
             metadata |-> [strategy |-> class.strategy,
                           sources_found |-> Len(processedSources),
                           confidence_score |-> calculateConfidence(processedSources, class),
                           has_legal_content |-> class.needsLegalDisclaimer],
             failed |-> FALSE]

\* The words of the question getFallbackResponse looks for
FallbackQuestions == SUBSET {"permesso", "costruire", "scia"}

\* lastError.message of the handler; "" stands for no error object
FallbackErrors == {"", "429 Rate limit reached for gpt-4 in organization org-1"}

getFallbackResponse(question, message) ==
    IF "permesso" \in question /\ "costruire" \in question
    THEN <<"Permesso di Costruire - Informazioni di base">>
    ELSE IF "scia" \in question
    THEN <<"SCIA Edilizia - Informazioni di base">>
    ELSE <<"UrbanAI - Servizio temporaneamente limitato", "Errore tecnico:",
           IF message # "" THEN message ELSE "Errore di sistema",
           "Il servizio sara' ripristinato il prima possibile.">>

NoGeneratorInput == [searchResults |-> <<>>, classification |-> Null]

GeneratorInit ==
    /\ gpc = "idle"
    /\ generatorConfig \in GeneratorConfigs
    /\ generatorInput = NoGeneratorInput
    /\ generated = Null
    /\ fallbackError = ""
    /\ fallbackReply = <<>>

GeneratorIdle ==
    /\ gpc = "off"
    /\ generatorConfig = Null
    /\ generatorInput = NoGeneratorInput
    /\ generated = Null
    /\ fallbackError = ""
    /\ fallbackReply = <<>>

\* responseGenerator.generateResponse(question, matches, classification)
GenerateResponse ==
    /\ gpc = "idle"
    /\ \E results \in SearchResultLists, class \in GeneratorClassifications, today \in Dates :
          /\ generatorInput' = [searchResults |-> results, classification |-> class]
          /\ generated' = generateResponse(results, class, generatorConfig, today)
    /\ gpc' = "done"
    /\ UNCHANGED <<generatorConfig, fallbackError, fallbackReply>>
    /\ UNCHANGED notGenerator

\* answer = getFallbackResponse(question, lastError) of the optimized handler
GetFallbackResponse ==
    /\ gpc = "idle"
    /\ \E question \in FallbackQuestions, message \in FallbackErrors :
          /\ fallbackError' = message
          /\ fallbackReply' = getFallbackResponse(question, message)
    /\ gpc' = "fallback"
    /\ UNCHANGED <<generatorConfig, generatorInput, generated>>
    /\ UNCHANGED notGenerator

GeneratorNext == GenerateResponse \/ GetFallbackResponse

--------------------------------------------------------------------------
(* RateLimiter (src/unnamed/part_002). Calls of waitIfNeeded are async      *)
(* functions on one event loop: the code up to the await runs in one step,  *)
(* the code after it in a later step, once the timer is due.                *)

\* constructor(delayMs = 2000)
delayMs == 2000

\* Calls of waitIfNeeded made on the limiter
MaxCalls == 3

LimiterCalls == 1..MaxCalls

\* The clock advances in steps of LimiterTickMs, at most MaxLimiterTicks times
LimiterTickMs == 1000

MaxLimiterTicks == 4

\* Date.now() when the limiter is constructed: far more than delayMs after
\* the epoch, which is what lastRequestTime = 0 stands for
ConstructedAt == 10 * delayMs

LimiterInit ==
    /\ lpc = [c \in LimiterCalls |-> "idle"]
    /\ lastRequestTime = 0
    /\ wakeAt = [c \in LimiterCalls |-> 0]
    /\ calledAt = [c \in LimiterCalls |-> 0]
    /\ returnedAt = [c \in LimiterCalls |-> 0]
    /\ clock = ConstructedAt

LimiterIdle ==
    /\ lpc = <<>>
    /\ lastRequestTime = 0
    /\ wakeAt = <<>>
    /\ calledAt = <<>>
    /\ returnedAt = <<>>
    /\ clock = 0

\* waitIfNeeded() up to its await: either it sleeps, or it sets
\* lastRequestTime and returns
WaitIfNeeded(c) ==
    /\ lpc[c] = "idle"
    /\ calledAt' = [calledAt EXCEPT ![c] = clock]
    /\ LET timeSinceLastRequest == clock - lastRequestTime
       IN  IF timeSinceLastRequest < delayMs
           THEN /\ wakeAt' = [wakeAt EXCEPT ![c] = clock + (delayMs - timeSinceLastRequest)]
                /\ lpc' = [lpc EXCEPT ![c] = "sleeping"]
                /\ UNCHANGED <<lastRequestTime, returnedAt>>
           ELSE /\ lastRequestTime' = clock
                /\ returnedAt' = [returnedAt EXCEPT ![c] = clock]
                /\ lpc' = [lpc EXCEPT ![c] = "returned"]
                /\ UNCHANGED wakeAt
    /\ UNCHANGED clock
    /\ UNCHANGED notLimiter

\* The timer of sleep(waitTime) fires and waitIfNeeded runs to its end
WakeUp(c) ==
    /\ lpc[c] = "sleeping"
    /\ clock >= wakeAt[c]
    /\ lastRequestTime' = clock
    /\ returnedAt' = [returnedAt EXCEPT ![c] = clock]
    /\ lpc' = [lpc EXCEPT ![c] = "returned"]
    /\ UNCHANGED <<wakeAt, calledAt, clock>>
    /\ UNCHANGED notLimiter

LimiterTick ==
    /\ lpc # <<>>
    /\ clock < ConstructedAt + MaxLimiterTicks * LimiterTickMs
    /\ clock' = clock + LimiterTickMs
    /\ UNCHANGED <<lpc, lastRequestTime, wakeAt, calledAt, returnedAt>>
    /\ UNCHANGED notLimiter

LimiterNext ==
    \/ \E c \in LimiterCalls : WaitIfNeeded(c)
    \/ \E c \in LimiterCalls : WakeUp(c)
    \/ LimiterTick

--------------------------------------------------------------------------
(* LegalMetadataExtractor (src/processors/legal_parser.js). The full text   *)
(* of a document is a sequence of phrases; a phrase is a citation or plain  *)
(* text, and the patterns of documentTypes are given by the number of       *)
(* matches each has in a phrase.                                            *)

\* this.documentTypes, in the order of Object.entries
documentTypes ==
    <<"legge", "decreto_legge", "decreto_legislativo", "decreto_presidente",
      "regolamento", "circolare">>

TextPhrases ==
    {"Legge 10/1977", "Decreto Legge 69/2013", "D.Lgs. 42/2004", "DPR 380/2001",
     "in materia di edilizia"}

\* [...phrase.matchAll(pattern)].length for the pattern of a type; the pattern
\* of legge, (?:Legge|L\.)\s*(\d+...), also matches inside 'Decreto Legge 69/2013'
PatternMatches(type, phrase) ==
    CASE type = "legge" ->
             IF phrase \in {"Legge 10/1977", "Decreto Legge 69/2013"} THEN 1 ELSE 0
      [] type = "decreto_legge" -> IF phrase = "Decreto Legge 69/2013" THEN 1 ELSE 0
      [] type = "decreto_legislativo" -> IF phrase = "D.Lgs. 42/2004" THEN 1 ELSE 0
      [] type = "decreto_presidente" -> IF phrase = "DPR 380/2001" THEN 1 ELSE 0
      [] OTHER -> 0

matchCount(type, text) ==
    SumFn([k \in 1..Len(text) |-> PatternMatches(type, text[k])], 1..Len(text))

\* The score of a type in classifyDocument, 0 when its pattern has no match
typeScore(type, doc) ==
    IF matchCount(type, doc.fullText) > 0
    THEN matchCount(type, doc.fullText) * 10 + (IF type = doc.metadata.type THEN 20 ELSE 0)
    ELSE 0

\* The loop of classifyDocument over the types from k on: a later type
\* replaces the best match only with a strictly greater score
RECURSIVE bestMatchFrom(_, _, _)
bestMatchFrom(doc, k, best) ==
    IF k > Len(documentTypes) THEN best
    ELSE bestMatchFrom(doc, k + 1,
             IF typeScore(documentTypes[k], doc) > best.score
             THEN [type |-> documentTypes[k], score |-> typeScore(documentTypes[k], doc)]
             ELSE best)

classifyDocument(doc) ==
    LET bestMatch == bestMatchFrom(doc, 1, [type |-> "unknown", score |-> 0])
    IN  [primary_type |-> bestMatch.type, confidence |-> Min2(95, bestMatch.score)]

\* Math.round of the fraction num / den (den > 0, num >= 0)
MathRound(num, den) == (2 * num + den) \div (2 * den)

Truthy(field) == field # ""

calculateQualityMetrics(doc) ==
    LET completeness_score ==
            IF doc.textLength > 10000 THEN 95
            ELSE IF doc.textLength > 5000 THEN 80
            ELSE IF doc.textLength > 1000 THEN 60
            ELSE 30
        structure_score ==
            IF doc.articleCount > 20 THEN 95
            ELSE IF doc.articleCount > 10 THEN 80
            ELSE IF doc.articleCount > 5 THEN 60
            ELSE IF doc.articleCount > 0 THEN 40
            ELSE 20
        metadataFields ==
            Cardinality({ f \in {"title", "number", "date", "type"} : Truthy(doc.metadata[f]) })
    IN  [completeness_score |-> completeness_score,
         structure_score |-> structure_score,
         metadata_richness |-> 25 * metadataFields,
         overall_quality |->
             MathRound(4 * completeness_score + 4 * structure_score + 50 * metadataFields, 10)]

\* The four factors of calculateConfidenceScore, each times 3 so that the
\* third, presentFields / 3 * 100, is a whole number
confidenceFactors(doc, unknownTypeFactor) ==
    LET confidence == classifyDocument(doc).confidence
        presentFields ==
            Cardinality({ f \in {"title", "number", "type"} : Truthy(doc.metadata[f]) })
    IN  << 3 * (IF confidence # 0 THEN confidence ELSE unknownTypeFactor),
           3 * (IF doc.articleCount > 0 THEN 80 ELSE 40),
           100 * presentFields,
           3 * (IF doc.textLength > 5000 THEN 90
                ELSE IF doc.textLength > 1000 THEN 70 ELSE 40) >>

roundedMean(factors) ==
    MathRound(SumFn(factors, 1..Len(factors)), 3 * Len(factors))

\* classification.confidence || 50
calculateConfidenceScore(doc) == roundedMean(confidenceFactors(doc, 50))

\* extractMetadata(parsedDocument) at time t. The topic, status, structure,
\* reference, authority and temporal analyses are string matching over the
\* document alone and are left out.
extractMetadata(doc, t) ==
    [title |-> doc.metadata.title,
     number |-> doc.metadata.number,
     type |-> doc.metadata.type,
     date |-> doc.metadata.date,
     document_classification |-> classifyDocument(doc),
     quality_metrics |-> calculateQualityMetrics(doc),
     processing_info |->
         [extracted_at |-> t,
          extractor_version |-> "1.0.0",
          confidence_score |-> calculateConfidenceScore(doc)]]

\* Longest full text, in phrases
MaxPhrases == 2

\* The documents parseDocument hands over
MetadataDocuments ==
    [fullText : SeqsUpTo(TextPhrases, MaxPhrases),
     metadata : [title : {"", "Testo unico edilizia"}, number : {"", "380/2001"},
                 type : {"unknown", "legge", "decreto_legge"}, date : {""}],
     articleCount : {0, 3},
     textLength : {800, 3000, 6000}]

\* The two calls of extractMetadata on one document
ExtractorCalls == {1, 2}

\* Milliseconds that can pass while the two calls are made
MaxElapsedMs == 2

NotExtracted == [processing_info |-> [extracted_at |-> 0, confidence_score |-> 0]]

ExtractorInit ==
    /\ xpc = [c \in ExtractorCalls |-> "idle"]
    /\ metadataDocument \in MetadataDocuments
    /\ extracted = [c \in ExtractorCalls |-> NotExtracted]
    /\ xclock = 0

ExtractorIdle ==
    /\ xpc = <<>>
    /\ metadataDocument = Null
    /\ extracted = <<>>
    /\ xclock = 0

\* extractor.extractMetadata(parsedDocument)
ExtractMetadata(c) ==
    /\ xpc[c] = "idle"
    /\ extracted' = [extracted EXCEPT ![c] = extractMetadata(metadataDocument, xclock)]
    /\ xpc' = [xpc EXCEPT ![c] = "done"]
    /\ UNCHANGED <<metadataDocument, xclock>>
    /\ UNCHANGED notExtractor

ExtractorTick ==
    /\ xpc # <<>>
    /\ xclock < MaxElapsedMs
    /\ xclock' = xclock + 1
    /\ UNCHANGED <<xpc, metadataDocument, extracted>>
    /\ UNCHANGED notExtractor

ExtractorNext ==
    \/ \E c \in ExtractorCalls : ExtractMetadata(c)
    \/ ExtractorTick

--------------------------------------------------------------------------
(* LegalChunker.splitTextBySeparators, iteration by iteration              *)

\* The pieces of the texts to split: a word, a sentence end, a semicolon
\* clause, a space, a paragraph break
SplitPieces ==
    { Rep("a", 5),
      Rep("a", 3) \o <<".", " ", "B">>,
      Rep("a", 6) \o <<";", " ">>,
      <<" ">>,
      <<"\n", "\n">> }

MaxSplitPieces == 3

SplitTexts == { Flatten(ps) : ps \in SeqsUpTo(SplitPieces, MaxSplitPieces) }

\* Configurations with maxChunkSize >= 1: the smallest, one whose range no
\* prefix is in, and two with room for a separator cut
SplitterConfigs ==
    { [minChunkSize |-> 1, maxChunkSize |-> 1, overlapSize |-> 0],
      [minChunkSize |-> 3, maxChunkSize |-> 2, overlapSize |-> 0],
      [minChunkSize |-> 1, maxChunkSize |-> 2, overlapSize |-> 0],
      [minChunkSize |-> 2, maxChunkSize |-> 4, overlapSize |-> 0] }

SplitterInit ==
    /\ spc = "idle"
    /\ splitInput = <<>>
    /\ segments = <<>>
    /\ remainingText = <<>>
    /\ cpc = "off"
    /\ chunkerConfig \in SplitterConfigs
    /\ inputDocument = NoDocument
    /\ rawChunks = <<>>
    /\ processedChunks = <<>>

SplitterIdle ==
    /\ spc = "off"
    /\ splitInput = <<>>
    /\ segments = <<>>
    /\ remainingText = <<>>

\* splitTextBySeparators(text), up to the loop
SplitTextBySeparators ==
    /\ spc = "idle"
    /\ \E text \in SplitTexts :
          /\ splitInput' = text
          /\ remainingText' = text
    /\ segments' = <<>>
    /\ spc' = "looping"
    /\ UNCHANGED notSplitter

\* One iteration of while (remainingText.length > 0)
SplitIteration ==
    /\ spc = "looping"
    /\ Len(remainingText) > 0
    /\ LET bestSplit == BestSplit(remainingText, chunkerConfig) IN
       IF bestSplit.position >= 0
       THEN /\ segments' =
                   Append(segments,
                          [text |-> trim(substring(remainingText, 0, bestSplit.position)),
                           separatorUsed |-> bestSplit.separatorUsed])
            /\ remainingText' =
                   trim(substring(remainingText, bestSplit.position, Len(remainingText)))
       ELSE LET actualChunk == ForceCut(remainingText, chunkerConfig) IN
            /\ segments' =
                   Append(segments,
                          [text |-> trim(actualChunk), separatorUsed |-> "force_split"])
            /\ remainingText' =
                   trim(substring(remainingText, Len(actualChunk), Len(remainingText)))
    /\ UNCHANGED <<spc, splitInput>>
    /\ UNCHANGED notSplitter

\* The loop condition fails: return segments
SplitReturn ==
    /\ spc = "looping"
    /\ Len(remainingText) = 0
    /\ spc' = "returned"
    /\ UNCHANGED <<splitInput, segments, remainingText>>
    /\ UNCHANGED notSplitter

SplitterNext == SplitTextBySeparators \/ SplitIteration \/ SplitReturn

--------------------------------------------------------------------------
(* Specifications                                                          *)

EngineNext == EngineSteps(QueryOptions)

\* The options of the timed runs
TimedOptions == { o \in QueryOptions : o.threshold = defaultThreshold /\ o.enableReranking }

EngineTimedNext == EngineSteps(TimedOptions) \/ Tick

\* Each specification runs one component from its constructed state, the
\* other two being out of play
InitRouter == RouterInit /\ EngineIdle /\ ChunkerIdle /\ RerankIdle /\ GeneratorIdle /\ LimiterIdle /\ ExtractorIdle /\ SplitterIdle

InitEngine == EngineInit /\ RouterIdle /\ ChunkerIdle /\ RerankIdle /\ GeneratorIdle /\ LimiterIdle /\ ExtractorIdle /\ SplitterIdle

InitChunker == ChunkerInit /\ RouterIdle /\ EngineIdle /\ RerankIdle /\ GeneratorIdle /\ LimiterIdle /\ ExtractorIdle /\ SplitterIdle

InitEngineExample == ExampleInit /\ RouterIdle /\ ChunkerIdle /\ RerankIdle /\ GeneratorIdle /\ LimiterIdle /\ ExtractorIdle /\ SplitterIdle

InitChunkerParsed == ParserChunkerInit /\ RouterIdle /\ EngineIdle /\ RerankIdle /\ GeneratorIdle /\ LimiterIdle /\ ExtractorIdle /\ SplitterIdle

InitRerank == RerankInit /\ RouterIdle /\ EngineIdle /\ ChunkerIdle /\ GeneratorIdle /\ LimiterIdle /\ ExtractorIdle /\ SplitterIdle

SpecRouter == InitRouter /\ [][RouterNext]_vars

SpecEngine == InitEngine /\ [][EngineNext]_vars

\* Promise continuations run once they are ready and the clock advances; the
\* vector store and the embedding service need not ever answer
SpecEngineTimed ==
    /\ InitEngine
    /\ [][EngineTimedNext]_vars
    /\ WF_vars(Join)
    /\ WF_vars(Tick)

SpecChunker == InitChunker /\ [][ChunkerNext]_vars

EngineExampleNext == EngineSteps(ExampleOptions)

SpecEngineExample == InitEngineExample /\ [][EngineExampleNext]_vars

SpecChunkerParsed == InitChunkerParsed /\ [][ChunkParserDocument]_vars

InitGenerator == GeneratorInit /\ RouterIdle /\ EngineIdle /\ ChunkerIdle /\ RerankIdle /\ LimiterIdle /\ ExtractorIdle /\ SplitterIdle

SpecRerank == InitRerank /\ [][RerankNext]_vars

SpecGenerator == InitGenerator /\ [][GeneratorNext]_vars

InitLimiter == LimiterInit /\ RouterIdle /\ EngineIdle /\ ChunkerIdle /\ RerankIdle /\ GeneratorIdle /\ ExtractorIdle /\ SplitterIdle

SpecLimiter == InitLimiter /\ [][LimiterNext]_vars

InitExtractor == ExtractorInit /\ RouterIdle /\ EngineIdle /\ ChunkerIdle /\ RerankIdle /\ GeneratorIdle /\ LimiterIdle /\ SplitterIdle

SpecExtractor == InitExtractor /\ [][ExtractorNext]_vars

InitSplitter == SplitterInit /\ RouterIdle /\ EngineIdle /\ RerankIdle /\ GeneratorIdle /\ LimiterIdle /\ ExtractorIdle

SpecSplitter == InitSplitter /\ [][SplitterNext]_vars

Spec == SpecEngine

--------------------------------------------------------------------------
(* Claims about the QueryRouter                                            *)

Returned == rpc \in {"classified", "strategy"}

\* C6: every classification returned by classifyQuery has namespace weights
\* that sum to 1.0 within 0.01, and every namespace of its namespace list has
\* an entry in the weight map.
C6_WeightInvariant ==
    rpc = "classified" =>
        LET w == classification.weights
            sum == SumFn(w, DOMAIN w)
        IN  /\ sum >= 990 /\ sum <= 1010
            /\ \A i \in 1..Len(classification.namespaces) :
                   classification.namespaces[i] \in DOMAIN w

C6_Witness ==
    /\ rpc = "classified"
    /\ classification.strategy = "regional-focus"
    /\ classification.filters.region = "LOM"

\* The decision table of the specification, as an ordered list of rules
StrategyRules(s, cfg) ==
    << <<s.legal >= cfg.legalConfidenceThreshold
            /\ s.regional >= cfg.regionalConfidenceThreshold /\ s.urban > 2000,
         "comprehensive">>,
       <<s.legal >= cfg.legalConfidenceThreshold /\ s.urban > 2000, "legal-urban">>,
       <<s.regional >= cfg.regionalConfidenceThreshold, "regional-focus">>,
       <<s.legal >= cfg.legalConfidenceThreshold, "legal-only">>,
       <<s.urban > 4000 /\ s.legal > 1000, "urban-legal-light">>,
       <<TRUE, "urban-only">> >>

FirstMatch(rules) ==
    rules[CHOOSE i \in 1..Len(rules) :
              rules[i][1] /\ \A j \in 1..(i - 1) : ~rules[j][1]][2]

\* C7: determineStrategy returns the strategy of the first matching rule of
\* the decision table; urban-only has confidence at least 0.5; the legal
\* disclaimer is required for every strategy except urban-only.
C7_DecisionTable ==
    Returned =>
        /\ classification.strategy = FirstMatch(StrategyRules(scoresIn, routerConfig))
        /\ (classification.strategy = "urban-only" => classification.confidence >= 5000)
        /\ classification.needsLegalDisclaimer = (classification.strategy # "urban-only")

C7_Witness ==
    /\ rpc = "strategy"
    /\ classification.strategy = "urban-legal-light"
    /\ scoresIn.regional > 0

\* C8: the first pipeline test query, classified with the built-in keyword
\* sets and the default thresholds, yields legal-urban with a disclaimer.
C8_TestQuery1LegalUrban ==
    (rpc = "classified" /\ rquery = TestQuery1 /\ routerConfig = DefaultRouterConfig) =>
        /\ classification.strategy = "legal-urban"
        /\ classification.needsLegalDisclaimer

\* What the code returns for that query: legal-only (one legal and one urban
\* keyword match; the urban score 0.1125 is not above 0.2)
C8_Actual ==
    (rpc = "classified" /\ rquery = TestQuery1 /\ routerConfig = DefaultRouterConfig) =>
        /\ classification.strategy = "legal-only"
        /\ scoresIn = [legal |-> 1400, regional |-> 0, urban |-> 1125]

\* The corpora the pipeline test expects for a strategy (expected_namespaces)
StrategyCorpora(strategy) ==
    CASE strategy = "legal-urban" -> {"laws-national", "urbanistica-base"}
      [] strategy = "urban-only" -> {"urbanistica-base"}
      [] strategy = "legal-only" -> {"laws-national"}
      [] strategy = "regional-focus" -> {"laws-regional", "urbanistica-base"}
      [] OTHER -> {}

\* C21: the namespace list of every classification contains the corpora of
\* its strategy
C21_StrategyCorpora ==
    Returned =>
        StrategyCorpora(classification.strategy) \subseteq
            { classification.namespaces[i] : i \in 1..Len(classification.namespaces) }

\* C22: when the query names a region, classifyQuery extracts its code (the
\* fourth test query gives LOM with regional-focus) and every queryVectors
\* request issued for the query carries that code as its metadata filter
C22_RegionFilterApplied ==
    /\ (rpc \in {"classified", "queried"} /\ rquery = TestQuery4
           /\ routerConfig = DefaultRouterConfig) =>
           /\ classification.strategy = "regional-focus"
           /\ classification.filters.region = "LOM"
    /\ (rpc = "queried" /\ extractRegion(normalizeQuery(rquery)) # NoRegion) =>
           /\ Len(requests) > 0
           /\ \A k \in 1..Len(requests) :
                  requests[k].filter = [region |-> extractRegion(normalizeQuery(rquery))]

\* What the code does for the fourth test query: LOM is extracted and put in
\* the classification, and the one request issued carries no filter
C22_Actual ==
    (rpc = "queried" /\ rquery = TestQuery4 /\ routerConfig = DefaultRouterConfig) =>
        /\ classification.strategy = "regional-focus"
        /\ classification.filters.region = "LOM"
        /\ requests = << [namespace |-> "", filter |-> NoFilters] >>

\* C23: every classification returned by classifyQuery has a confidence of at
\* least 0.3 and at most 1
C23_ConfidenceRange ==
    rpc = "classified" =>
        (classification.confidence >= 3000 /\ classification.confidence <= ScoreScale)

\* C28: with the default thresholds no classification has the strategy
\* urban-legal-light: every score triple with urban > 0.4 and legal > 0.1 is
\* matched by an earlier rule of determineStrategy
C28_LightRuleUnreachable ==
    (Returned /\ routerConfig = DefaultRouterConfig) =>
        /\ classification.strategy # "urban-legal-light"
        /\ (scoresIn.urban > 4000 /\ scoresIn.legal > 1000) =>
               classification.strategy \in {"comprehensive", "legal-urban"}

C28_Witness ==
    /\ rpc = "strategy"
    /\ routerConfig = DefaultRouterConfig
    /\ scoresIn.urban > 4000
    /\ scoresIn.legal = 1001
    /\ scoresIn.regional < 3000
    /\ classification.strategy = "legal-urban"

--------------------------------------------------------------------------
(* Claims about the QueryEngine                                            *)

\* The matches of the namespaces whose call succeeded, in namespace order,
\* as (id, source namespace) pairs
SucceededMatches ==
    Flatten([i \in 1..Len(calls) |->
        IF calls[i].status = "ok"
        THEN [k \in 1..Len(calls[i].matches) |->
                 <<calls[i].matches[k].id, targetNamespaces[i]>>]
        ELSE <<>>])

GatheredMatches ==
    [k \in 1..Len(allMatches) |-> <<allMatches[k].id, allMatches[k].source_namespace>>]

SomeCallFailed == \E i \in 1..Len(calls) : calls[i].status = "failed"

\* C3: when the vector-store query of one namespace fails, the queries of all
\* other target namespaces still run to completion and their matches enter
\* the merge; the failed namespace contributes no match and the failure is
\* not thrown to the caller of query().
C3_FailureIsolated ==
    (epc = "returned" /\ SomeCallFailed) =>
        /\ \A i \in 1..Len(calls) : Settled(calls[i])
        /\ GatheredMatches = SucceededMatches
        /\ ~response.error

C3_Witness ==
    /\ epc = "returned"
    /\ ParallelPath
    /\ Len(calls) >= 2
    /\ calls[1].status = "failed"
    /\ \E i \in 2..Len(calls) : calls[i].status = "ok" /\ Len(calls[i].matches) = 2
    /\ Len(response.results) > 0

\* C4: when the vector-store queries of all target namespaces fail, query()
\* returns a response with zero results that carries an explicit error
\* marker.
C4_AllFailedErrorMarked ==
    (/\ epc = "returned"
     /\ calls # <<>>
     /\ \A i \in 1..Len(calls) : calls[i].status = "failed")
        => (response.results = <<>> /\ response.error)

\* C5: once the timeout has elapsed since the namespace calls were issued,
\* query() eventually returns, even if a namespace never responds.
C5_ReturnsAfterTimeout ==
    (epc = "searching" /\ now - searchStart > queryTimeout) ~> (epc = "returned")

\* C9: the number of results returned by query() never exceeds the
\* requested topK.
C9_AtMostTopK ==
    epc = "returned" => Len(response.results) <= options.topK

RawScore(id) == (CHOOSE m \in MatchPool : m.id = id).score

Boosts(id) ==
    LET m == CHOOSE x \in MatchPool : x.id = id
    IN  (IF isLegalDocument(m) THEN legalContextBoost ELSE 0) + calculateDiversityBoost(m)

WeightedScore(id, namespace) ==
    (RawScore(id) * namespaceWeights(namespace)) \div 100 + Boosts(id)

\* C10: the score reported for each match, which is the score that was
\* compared with the threshold and used for reranking, is its raw similarity
\* score multiplied by the weight of its source namespace, plus the legal
\* and diversity boosts.
C10_WeightedScore ==
    epc = "returned" =>
        \A k \in 1..Len(response.results) :
            response.results[k].score =
                WeightedScore(response.results[k].id, response.results[k].namespace)

--------------------------------------------------------------------------
(* Claims about the LegalChunker                                           *)

\* C1: every chunk returned by chunkDocument, with its overlap prefix, has a
\* token estimate of at most maxChunkSize + overlapSize, force-split
\* fragments excepted.
C1_TokenBound ==
    cpc = "done" =>
        \A k \in 1..Len(processedChunks) :
            processedChunks[k].chunk_type # "force_split" =>
                estimateTokens(processedChunks[k].text)
                    <= chunkerConfig.maxChunkSize + chunkerConfig.overlapSize

\* C1 as amended: every chunk returned by chunkDocument, with its overlap
\* prefix, has a token estimate of at most maxChunkSize + overlapSize + 1,
\* the one more token being for the space that joins the overlap prefix to
\* the chunk's own text; force-split fragments excepted.
C1_TokenBoundWithJoin ==
    cpc = "done" =>
        \A k \in 1..Len(processedChunks) :
            processedChunks[k].chunk_type # "force_split" =>
                /\ processedChunks[k].tokens = estimateTokens(processedChunks[k].text)
                /\ processedChunks[k].tokens
                       <= chunkerConfig.maxChunkSize + chunkerConfig.overlapSize + 1

\* A returned chunk of full size that carries a full overlap prefix
C1_Witness ==
    /\ cpc = "done"
    /\ \E k \in 1..Len(processedChunks) :
          /\ processedChunks[k].text # processedChunks[k].ownText
          /\ processedChunks[k].tokens
                 = chunkerConfig.maxChunkSize + chunkerConfig.overlapSize + 1

\* A text without its whitespace: splitting trims and re-joins with spaces
Squeeze(text) == SelectSeq(text, LAMBDA c : ~IsSpace(c))

\* The own text (no overlap prefix) of the chunks of one article or comma,
\* in order
OwnTextOf(chunkList, hierarchy) ==
    Flatten([k \in 1..Len(chunkList) |->
        IF chunkList[k].hierarchy = hierarchy THEN chunkList[k].ownText ELSE <<>>])

\* The texts chunkByArticles hands to the splitting: the content of each
\* article, or of each of its commas when the article is split by commas
ChunkedUnits(parsedDocument, cfg) ==
    UNION { LET article == parsedDocument.articles[a] IN
            IF estimateTokens(article.content) > cfg.maxChunkSize
               /\ Len(article.commas) > 1
            THEN { [hierarchy |-> [article |-> article.number,
                                   comma |-> article.commas[k].number],
                    content |-> article.commas[k].content] :
                       k \in 1..Len(article.commas) }
            ELSE { [hierarchy |-> [article |-> article.number, comma |-> NoNumber],
                    content |-> article.content] } :
            a \in 1..Len(parsedDocument.articles) }

CoveredBy(chunkList) ==
    \A unit \in ChunkedUnits(inputDocument, chunkerConfig) :
        Squeeze(OwnTextOf(chunkList, unit.hierarchy)) = Squeeze(unit.content)

\* C2: every character of the content of each article (of each comma, for an
\* article split by commas) is in the own text of the chunks chunkDocument
\* returns: nothing is lost by splitting, cutting or the post-processing
\* filter.
C2_Coverage == cpc = "done" => CoveredBy(processedChunks)

\* The chunks cover the text before the post-processing filter runs
C2_RawCoverage == cpc = "done" => CoveredBy(rawChunks)

\* C12: the result list of a multi-namespace search contains no two matches
\* with the same id.
C12_NoDuplicateIds ==
    (epc = "returned" /\ Len(targetNamespaces) > 1) =>
        \A i, j \in 1..Len(response.results) :
            response.results[i].id = response.results[j].id => i = j

\* What executeMultiNamespaceSearch returned in a query that has returned
\* without error
SearchResultsOf ==
    IF ParallelPath
    THEN mergeNamespaceResults(
             [i \in 1..Len(calls) |-> searchPromise(targetNamespaces[i], calls[i])],
             adjustedTopK(options.topK))
    ELSE allMatches

\* The response of the same query, namespaces and namespace answers with
\* another threshold
ResponseWithThreshold(t) ==
    processResults(SearchResultsOf, [options EXCEPT !.threshold = t])

\* Thresholds around the scores of the matches
ThresholdGrid == {0, 5000, 5200, 5201, 5560, 6000, 10550, 10551}

\* C13: for the same query, target namespaces and per-namespace match
\* lists, a higher threshold never returns more results than a lower one.
C13_MonotonicThreshold ==
    (epc = "returned" /\ ~response.error) =>
        /\ response = ResponseWithThreshold(options.threshold)
        /\ \A t \in ThresholdGrid :
               /\ t >= options.threshold =>
                      Len(ResponseWithThreshold(t).results) <= Len(response.results)
               /\ t <= options.threshold =>
                      Len(ResponseWithThreshold(t).results) >= Len(response.results)

C13_Witness ==
    /\ epc = "returned"
    /\ ~response.error
    /\ options.threshold = defaultThreshold
    /\ Len(response.results) = 2
    /\ Len(ResponseWithThreshold(6000).results) = 1
    /\ Len(ResponseWithThreshold(10551).results) = 0

\* C14: two namespaces answer with raw scores [0.9, 0.7] and [0.85, 0.6] and
\* have weights 1.0 and 0.5; the first element of the merged, boosted and
\* reranked result is the 0.9-scored match of the first namespace.
C14_MergeOrdering ==
    (/\ epc = "returned"
     /\ targetNamespaces = <<"first", "second">>
     /\ Len(calls) = 2
     /\ \A i \in 1..Len(calls) : calls[i].status = "ok")
        => /\ Len(response.results) > 0
           /\ response.results[1].id = "x1"
           /\ response.results[1].namespace = "first"

--------------------------------------------------------------------------
(* Claims about rerankResults                                              *)

\* C11: in the list rerankResults returns, of any two matches whose scores
\* differ by more than 0.1 the higher-scored one comes first.
C11_HigherScoreFirst ==
    kpc = "done" =>
        \A i, j \in 1..Len(rerankOutput) :
            (i < j) => ~(rerankOutput[j].score - rerankOutput[i].score > 1000)

\* C15: for a document with empty text and an empty or absent article list
\* chunkDocument does not throw and returns a result with zero chunks.
C15_MalformedInputNoThrow ==
    (cpc # "idle" /\ inputDocument.articles = <<>> /\ inputDocument.fullText = <<>>)
        => (cpc = "done" /\ processedChunks = <<>>)

ArticleNumbers == { inputDocument.articles[a].number : a \in 1..Len(inputDocument.articles) }

--------------------------------------------------------------------------
(* ResponseGenerator claims                                                *)

InRange(confidence) ==
    /\ confidence.den > 0
    /\ confidence.den <= 10 * confidence.num
    /\ 100 * confidence.num <= 95 * confidence.den

\* C18: every response returned by generateResponse, on every path and for
\* every match list and classification, has a confidence within [0.1, 0.95]
C18_ConfidenceInRange == gpc = "done" => InRange(generated.confidence)

\* The fixed templates, the placeholders of the full one filled in
InstantiatedTemplates ==
    { disclaimerTemplates.minimal, disclaimerTemplates.regional } \cup
    { replaceFirst(replaceFirst(disclaimerTemplates.full, "{lastUpdate}", day),
                   "{dbVersion}", cfg.disclaimerVersion) :
        day \in Dates, cfg \in GeneratorConfigs }

DisclaimerMatchesNeed ==
    /\ (generated.legal_disclaimer # Null) <=> generatorInput.classification.needsLegalDisclaimer
    /\ generated.legal_disclaimer # Null => generated.legal_disclaimer \in InstantiatedTemplates

Mentions(text, message) == \E k \in 1..Len(text) : text[k] = message

\* C20: when response generation or the GPT-4 attempts fail, no field of the
\* value handed back contains the message of the internal error
C20_NoInternalErrorText ==
    /\ (gpc = "done" /\ generated.failed) =>
           /\ ~Mentions(generated.answer, ToFixedError)
           /\ ~Mentions(generated.legal_disclaimer, ToFixedError)
           /\ generated.metadata.error # ToFixedError
           /\ generated.metadata.strategy # ToFixedError
    /\ (gpc = "fallback" /\ fallbackError # "") => ~Mentions(fallbackReply, fallbackError)

--------------------------------------------------------------------------
(* RateLimiter claims                                                      *)

Apart(a, b) == IF a >= b THEN a - b ELSE b - a

\* C27: any two calls of waitIfNeeded on one limiter, made one after the
\* other or overlapping in time, return at instants at least delayMs apart
C27_ReturnsSpaced ==
    \A c, d \in DOMAIN lpc :
        (c # d /\ lpc[c] = "returned" /\ lpc[d] = "returned") =>
            Apart(returnedAt[c], returnedAt[d]) >= delayMs

\* What the code guarantees: a call made once another has returned returns
\* at least delayMs after it
C27_SequentialSpaced ==
    \A c, d \in DOMAIN lpc :
        (c # d /\ lpc[c] = "returned" /\ lpc[d] = "returned"
            /\ calledAt[d] >= returnedAt[c]
            /\ \A e \in DOMAIN lpc \ {c, d} : lpc[e] = "idle") =>
            returnedAt[d] - returnedAt[c] >= delayMs

--------------------------------------------------------------------------
(* LegalMetadataExtractor claims                                           *)

BothExtracted == xpc # <<>> /\ \A c \in ExtractorCalls : xpc[c] = "done"

\* C24: two calls of extractMetadata with an identical parsed document, made
\* at different times, return identical metadata in every field
C24_SameMetadata ==
    (BothExtracted /\ extracted[1].processing_info.extracted_at
                         # extracted[2].processing_info.extracted_at) =>
        extracted[1] = extracted[2]

\* What the code guarantees: the two results agree in every field but
\* processing_info.extracted_at
C24_SameButTimestamp ==
    BothExtracted =>
        [extracted[1] EXCEPT !.processing_info.extracted_at = 0]
            = [extracted[2] EXCEPT !.processing_info.extracted_at = 0]

\* C26: calculateConfidenceScore is the rounded mean of four equally weighted
\* factors: the classification confidence (0 when no document type matches),
\* 80 if articles were found else 40, the fraction of metadata fields present
\* times 100, and the text-length adequacy value
C26_MeanOfFourFactors ==
    \A c \in DOMAIN xpc :
        xpc[c] = "done" =>
            extracted[c].processing_info.confidence_score
                = roundedMean(confidenceFactors(metadataDocument, 0))

--------------------------------------------------------------------------
(* LegalChunker claims: generic splitting                                  *)

\* The segments chunkText gets for a document without articles
StructureSegments == splitTextBySeparators(inputDocument.fullText, chunkerConfig)

ForceCutSegments ==
    { k \in 1..Len(StructureSegments) :
          /\ StructureSegments[k].separatorUsed = "force_split"
          /\ StructureSegments[k].text # <<>> }

\* C25: when splitTextBySeparators force-cuts the text, the chunk emitted
\* for that cut carries the chunk type force_split, and with it the quality
\* penalty of 20
C25_ForceCutTagged ==
    (cpc = "done" /\ Len(inputDocument.articles) = 0) =>
        \A k \in ForceCutSegments :
            \E i \in 1..Len(rawChunks) :
                /\ Includes(rawChunks[i].ownText, StructureSegments[k].text)
                /\ rawChunks[i].chunk_type = "force_split"
                /\ rawChunks[i].quality_score
                       = calculateQualityScore(rawChunks[i].ownText, rawChunks[i].hierarchy,
                                               "force_split", chunkerConfig)

\* What the code does: chunkText never reads separatorUsed, and no chunk of
\* a document is of type force_split
C25_NoForceSplitChunk ==
    \A i \in 1..Len(rawChunks) : rawChunks[i].chunk_type # "force_split"

\* A force-cut happened and its text went into a chunk
C25_ForceCutHappened ==
    /\ cpc = "done" /\ Len(inputDocument.articles) = 0
    /\ ForceCutSegments # {}
    /\ rawChunks # <<>>

ChunkTypes(chunks) == { chunks[i].chunk_type : i \in 1..Len(chunks) }

\* C29: before the filter of postProcessChunks the chunks of one document
\* carry position_in_doc 0, 1, 2, ... in emission order, across articles,
\* comma chunks and generic splits, and the chunk_id values chunkDocument
\* returns for the document are pairwise distinct
C29_PositionsInOrder ==
    cpc = "done" =>
        /\ \A i \in 1..Len(rawChunks) : rawChunks[i].position_in_doc = i - 1
        /\ \A i, j \in 1..Len(processedChunks) :
               processedChunks[i].chunk_id = processedChunks[j].chunk_id => i = j

\* A document of several articles whose chunks are whole articles, commas
\* and generic splits, the whole articles not all in front
C29_Witness ==
    /\ cpc = "done"
    /\ Len(inputDocument.articles) > 1
    /\ {"complete_article", "article_comma", "text_segment", "final_segment"}
           \subseteq ChunkTypes(rawChunks)
    /\ Len(rawChunks) > 0
    /\ rawChunks[1].chunk_type # "complete_article"
    /\ Len(processedChunks) > 2

\* C30: with maxChunkSize >= 1 every iteration of the loop of
\* splitTextBySeparators, by the separator cut or by the force-cut, removes
\* at least one character from the remaining text, so the loop ends
C30_EveryIterationShrinks ==
    [][SplitIteration => Len(remainingText') < Len(remainingText)]_vars

\* One segment is pushed for each character removed at least: the loop runs
\* at most text.length times
C30_IterationsBounded ==
    spc \in {"looping", "returned"} =>
        Len(segments) + Len(remainingText) <= Len(splitInput)

\* The loop's result is the result of splitTextBySeparators
C30_SameSegments ==
    spc = "returned" => segments = splitTextBySeparators(splitInput, chunkerConfig)

\* A call that returned after a separator cut and a force-cut at the
\* maximum character length
C30_Witness ==
    /\ spc = "returned"
    /\ \E i, j \in 1..Len(segments) :
          /\ segments[i].separatorUsed = "force_split"
          /\ Len(segments[i].text) = chunkerConfig.maxChunkSize * tokenRatio
          /\ segments[j].separatorUsed \notin {"force_split", "none"}

====
